---- MODULE Spec2Model ----
(***************************************************************************)
(* A model of the prediction engine: the record model (SkyLocation,        *)
(* WaveParameters, Prediction), the HashVerifier, the PredictionValidator, *)
(* the PredictionParser and the LIGOClient in mock mode, of                *)
(* src/src/prediction_engine.                                              *)
(*                                                                         *)
(* Units.  Timestamps are counted in half hours from a base date, so that  *)
(* the midpoint of a window whose ends are whole hours is a timestamp;     *)
(* time distances are reported in half hours (difference_hours * 2).       *)
(* Confidence is counted in millionths (Percent(85) is 0.85), frequencies  *)
(* in Hz,                                                                  *)
(* amplitudes in units of 1e-21, angles in whole degrees and angular       *)
(* separations in thousandths of a degree.  On these inputs the float      *)
(* arithmetic of the time and frequency checks is exact; the haversine     *)
(* computation is not, and its rounding is modelled (see RoundsUp).        *)
(***************************************************************************)
EXTENDS Integers, Sequences, FiniteSets, TLC

VARIABLES
    sky,         \* the SkyLocation built last (Optional), argument of Prediction(...)
    wave,        \* the WaveParameters built last (Optional), argument of Prediction(...)
    pred,        \* the Prediction object (Optional: None until one is built)
    other,       \* a second Prediction (Optional), compared with the first by its digest
    client,      \* the LIGOClient: its mock_mode flag and its _mock_events list
    validator,   \* the PredictionValidator's tolerances
    lastOp,      \* the operation that made the last step
    raised,      \* the ValueError the last operation raised, "" when it returned
    args,     \* the arguments of the last call: the object a constructor was
              \* validating, the event a validator method was given (Optional);
              \* in SpecRace the call of each thread and how far it has got
    digest0,     \* the first compute_prediction_hash(pred) taken (Optional)
    digest,      \* the result of the last compute_prediction_hash(pred)
    digestOther, \* the result of the last compute_prediction_hash(other)
    result       \* the value the last validator operation returned

vars == <<sky, wave, pred, other, client, validator, lastOp, raised, args,
          digest0, digest, digestOther, result>>

(***************************************************************************)
(* Optional[T]: None, or Some(x).                                          *)
(***************************************************************************)
None == <<>>
Some(x) == <<x>>
The(o) == o[1]

Abs(x) == IF x < 0 THEN -x ELSE x
Min(a, b) == IF a <= b THEN a ELSE b
Max(a, b) == IF a >= b THEN a ELSE b

\* Whole hours as a timestamp or duration (half-hour ticks).
Hours(h) == 2 * h

\* A confidence of c percent (c / 100), in millionths.
Percent(c) == 10000 * c

(***************************************************************************)
(* Bounds of the model.                                                    *)
(***************************************************************************)
\* Event timestamps run over 0 .. Hours(MaxHour).
MaxHour == 8
\* Two Predictions whose digests are compared differ in at most MaxDiff places.
MaxDiff == 2

(***************************************************************************)
(* prediction.py: the enumerations.                                        *)
(***************************************************************************)
PredictionType ==
    [GRAVITATIONAL_WAVE |-> "gravitational_wave",
     GAMMA_RAY          |-> "gamma_ray",
     SOLAR_FLARE        |-> "solar_flare",
     TECTONIC           |-> "tectonic",
     BLACK_HOLE         |-> "black_hole",
     TSUNAMI            |-> "tsunami"]

PredictionStatus ==
    [PENDING     |-> "pending",
     VALIDATED   |-> "validated",
     INVALIDATED |-> "invalidated",
     EXPIRED     |-> "expired"]

(***************************************************************************)
(* prediction.py: SkyLocation.  The constructor stores the fields and      *)
(* __post_init__ raises ValueError on the first violated bound.            *)
(***************************************************************************)
SkyLocation(ra, dec, radius) ==
    [right_ascension |-> ra, declination |-> dec, uncertainty_radius |-> radius]

SkyLocation_post_init(self) ==
    IF ~(0 <= self.right_ascension /\ self.right_ascension <= 360)
      THEN "Right ascension must be between 0 and 360"
    ELSE IF ~(-90 <= self.declination /\ self.declination <= 90)
      THEN "Declination must be between -90 and 90"
    ELSE IF self.uncertainty_radius < 0
      THEN "Uncertainty radius cannot be negative"
    ELSE ""

(***************************************************************************)
(* prediction.py: WaveParameters.                                          *)
(***************************************************************************)
WaveParameters(freq, amp, chirp, dist, snr) ==
    [frequency_hz |-> freq, amplitude |-> amp, chirp_mass |-> chirp,
     distance_mpc |-> dist, snr |-> snr]

WaveParameters_post_init(self) ==
    IF self.frequency_hz <= 0 THEN "Frequency must be positive"
    ELSE IF self.amplitude <= 0 THEN "Amplitude must be positive"
    ELSE ""

(***************************************************************************)
(* prediction.py: Prediction.  status, sha256_hash, matched_event_id and   *)
(* tags take their defaults at construction.                               *)
(***************************************************************************)
valid_frameworks == {"CIA", "SIA", "HIA", "IIA", "Experimental"}

Prediction(id, type, created, start, end, framework, confidence, description, sky_location, wave_parameters, tags) ==
    [id                    |-> id,
     prediction_type       |-> type,
     created_at            |-> created,
     predicted_event_start |-> start,
     predicted_event_end   |-> end,
     framework             |-> framework,
     confidence            |-> confidence,
     description           |-> description,
     sky_location          |-> sky_location,
     wave_parameters       |-> wave_parameters,
     status                |-> "PENDING",
     sha256_hash           |-> None,
     matched_event_id      |-> None,
     tags                  |-> tags]

\* Mutant: a window of length zero is rejected.
Prediction_post_init_StrictWindow(self) ==
    IF ~(0 <= self.confidence /\ self.confidence <= Percent(100))
      THEN "Confidence must be between 0 and 1"
    ELSE IF self.predicted_event_end <= self.predicted_event_start
      THEN "Event end time cannot be before start time"
    ELSE IF self.framework \notin valid_frameworks
      THEN "Framework must be one of valid_frameworks"
    ELSE ""

Prediction_post_init(self) ==
    IF ~(0 <= self.confidence /\ self.confidence <= Percent(100))
      THEN "Confidence must be between 0 and 1"
    ELSE IF self.predicted_event_end < self.predicted_event_start
      THEN "Event end time cannot be before start time"
    ELSE IF self.framework \notin valid_frameworks
      THEN "Framework must be one of valid_frameworks"
    ELSE ""

is_within_window(self, event_time) ==
    self.predicted_event_start <= event_time /\ event_time <= self.predicted_event_end

\* In half hours.
time_window_hours(self) == self.predicted_event_end - self.predicted_event_start

mark_validated(self, event_id) ==
    [self EXCEPT !.status = "VALIDATED", !.matched_event_id = Some(event_id)]

\* Mutant: invalidation resets the Prediction to pending.
mark_invalidated_Reset(self) ==
    [self EXCEPT !.status = "PENDING", !.matched_event_id = None]

\* Mutant: invalidation marks the Prediction as expired.
mark_invalidated_Expires(self) ==
    [self EXCEPT !.status = "EXPIRED"]

mark_invalidated(self) ==
    [self EXCEPT !.status = "INVALIDATED"]

(***************************************************************************)
(* validator.py: HashVerifier.                                             *)
(***************************************************************************)
\* SHA-256 of the UTF-8 bytes, taken as collision free: the digest determines
\* the content.
compute_hash(content) == <<"sha256", content>>

\* datetime.isoformat(): the date part and the time-of-day part.
isoformat(t) == [date |-> t \div Hours(24), time |-> t % Hours(24)]

\* Every key json.dumps can meet, in the order sort_keys=True writes them.
SortedKeys ==
    <<"amp", "confidence", "created_at", "dec", "description", "event_end",
      "event_start", "framework", "freq", "id", "matched_event_id", "ra",
      "sky_location", "status", "tags", "type", "uncertainty", "wave_params">>

\* json.dumps(d, sort_keys=True, separators=(",", ":")): the key/value pairs of
\* d in sorted key order.  A nested dict is written the same way where it is
\* built (json_dumps of the inner dict is the value of the outer key).
json_dumps(d) ==
    LET keys == SelectSeq(SortedKeys, LAMBDA k : k \in DOMAIN d)
    IN  [i \in 1..Len(keys) |-> <<keys[i], d[keys[i]]>>]

\* The eight fields every Prediction contributes.
hashable_core(p) ==
    [id          |-> p.id,
     type        |-> PredictionType[p.prediction_type],
     created_at  |-> isoformat(p.created_at),
     event_start |-> isoformat(p.predicted_event_start),
     event_end   |-> isoformat(p.predicted_event_end),
     framework   |-> p.framework,
     confidence  |-> p.confidence,
     description |-> p.description]

\* if prediction.sky_location: hashable_data["sky_location"] = {ra, dec}
hashable_sky(p, d) ==
    IF p.sky_location # None
      THEN d @@ [sky_location |->
                    json_dumps([ra  |-> The(p.sky_location).right_ascension,
                                dec |-> The(p.sky_location).declination])]
      ELSE d

\* if prediction.wave_parameters: hashable_data["wave_params"] = {freq, amp}
hashable_wave(p, d) ==
    IF p.wave_parameters # None
      THEN d @@ [wave_params |->
                    json_dumps([freq |-> The(p.wave_parameters).frequency_hz,
                                amp  |-> The(p.wave_parameters).amplitude])]
      ELSE d

\* Mutant: the description is left out of the digest.
hashable_data_NoDescription(p) ==
    LET d == hashable_wave(p, hashable_sky(p, hashable_core(p)))
    IN  [k \in DOMAIN d \ {"description"} |-> d[k]]

\* Mutant: the lifecycle status is hashed too.
hashable_data_WithStatus(p) ==
    hashable_wave(p, hashable_sky(p, hashable_core(p))) @@ [status |-> p.status]

hashable_data(p) == hashable_wave(p, hashable_sky(p, hashable_core(p)))

compute_prediction_hash(p) == compute_hash(json_dumps(hashable_data(p)))

(***************************************************************************)
(* validator.py: PredictionValidator.__init__ and its default tolerances.  *)
(* time_tolerance is kept in half hours, like every duration;              *)
(* frequency_tolerance is kept in percent (the code keeps percent / 100).  *)
(***************************************************************************)
DEFAULT_TIME_TOLERANCE_HOURS == 24
DEFAULT_LOCATION_TOLERANCE_DEGREES == 30
DEFAULT_FREQUENCY_TOLERANCE_PERCENT == 50

PredictionValidator(time_tolerance_hours, location_tolerance_degrees, frequency_tolerance_percent) ==
    [time_tolerance      |-> Hours(time_tolerance_hours),
     location_tolerance  |-> location_tolerance_degrees,
     frequency_tolerance |-> frequency_tolerance_percent]

DefaultValidator ==
    PredictionValidator(DEFAULT_TIME_TOLERANCE_HOURS,
                        DEFAULT_LOCATION_TOLERANCE_DEGREES,
                        DEFAULT_FREQUENCY_TOLERANCE_PERCENT)

\* The last operation returned no value (None).
NoResult == [op |-> ""]

\* What a call of a validator method leaves behind: the value it returned, and
\* the two objects it was handed (the Prediction and the validator itself) as
\* they are when it returns.
Call(ret, prediction, self) == [ret |-> ret, prediction |-> prediction, self |-> self]

(***************************************************************************)
(* validator.py: validate_prediction_structure.  The warnings, in the      *)
(* order they are appended (the window warnings without the hours).        *)
(***************************************************************************)
WarnIf(cond, text) == IF cond THEN <<text>> ELSE <<>>

\* Mutant: missing wave parameters are warned about whatever the type.
validate_prediction_structure_AnyType(self, prediction) ==
    LET window_hours == time_window_hours(prediction)
        warnings ==
               (IF prediction.id = "" THEN <<"Missing prediction ID">> ELSE <<>>)
            \o (IF prediction.description = "" \/ prediction.description = "No description available"
                  THEN <<"Missing or default description">> ELSE <<>>)
            \o (IF prediction.confidence = Percent(50)
                  THEN <<"Default confidence value (0.5) - may not be explicitly set">> ELSE <<>>)
            \o (IF window_hours > Hours(168) THEN <<"Very wide prediction window">> ELSE <<>>)
            \o (IF window_hours < Hours(1) THEN <<"Very narrow prediction window">> ELSE <<>>)
            \o (IF prediction.wave_parameters = None
                  THEN <<"Gravitational wave prediction missing wave parameters">> ELSE <<>>)
            \o (IF prediction.prediction_type = "GRAVITATIONAL_WAVE" /\ prediction.sky_location = None
                  THEN <<"Gravitational wave prediction missing sky location">> ELSE <<>>)
    IN  [ret |-> [op |-> "validate_prediction_structure", warnings |-> warnings],
         prediction |-> prediction, self |-> self]

validate_prediction_structure(self, prediction) ==
    LET window_hours == time_window_hours(prediction)
        isWave == prediction.prediction_type = "GRAVITATIONAL_WAVE"
        warnings ==
               WarnIf(prediction.id = "", "Missing prediction ID")
            \o WarnIf(prediction.description = ""
                        \/ prediction.description = "No description available",
                      "Missing or default description")
            \o WarnIf(prediction.confidence = Percent(50),
                      "Default confidence value (0.5) - may not be explicitly set")
            \o WarnIf(window_hours > Hours(168), "Very wide prediction window")
            \o WarnIf(window_hours < Hours(1), "Very narrow prediction window")
            \o WarnIf(isWave /\ prediction.wave_parameters = None,
                      "Gravitational wave prediction missing wave parameters")
            \o WarnIf(isWave /\ prediction.sky_location = None,
                      "Gravitational wave prediction missing sky location")
    IN  Call([op |-> "validate_prediction_structure", warnings |-> warnings],
             prediction, self)

(***************************************************************************)
(* validator.py: check_time_match.  Returns (is_match, difference), the    *)
(* difference in half hours.                                               *)
(***************************************************************************)
TimeResult(match, diff) == [op |-> "check_time_match", match |-> match, distance |-> diff]

\* Mutant: inside the window the distance is taken from the nearest edge.
check_time_match_FromEdge(self, prediction, event_time) ==
    LET start_diff == Abs(event_time - prediction.predicted_event_start)
        end_diff == Abs(event_time - prediction.predicted_event_end)
        min_diff_hours == Min(start_diff, end_diff)
    IN  IF is_within_window(prediction, event_time)
          THEN Call(TimeResult(TRUE, min_diff_hours), prediction, self)
        ELSE IF min_diff_hours <= self.time_tolerance
          THEN Call(TimeResult(TRUE, min_diff_hours), prediction, self)
        ELSE Call(TimeResult(FALSE, min_diff_hours), prediction, self)

\* Mutant: an event exactly one tolerance outside the window does not match.
check_time_match_Exclusive(self, prediction, event_time) ==
    LET window_center == prediction.predicted_event_start
                           + time_window_hours(prediction) \div 2
        start_diff == Abs(event_time - prediction.predicted_event_start)
        end_diff == Abs(event_time - prediction.predicted_event_end)
        min_diff_hours == Min(start_diff, end_diff)
    IN  IF is_within_window(prediction, event_time)
          THEN Call(TimeResult(TRUE, Abs(event_time - window_center)), prediction, self)
        ELSE IF min_diff_hours < self.time_tolerance
          THEN Call(TimeResult(TRUE, min_diff_hours), prediction, self)
        ELSE Call(TimeResult(FALSE, min_diff_hours), prediction, self)

\* Mutant: inside the window the distance is taken from the window's start.
check_time_match_FromStart(self, prediction, event_time) ==
    LET start_diff == Abs(event_time - prediction.predicted_event_start)
        end_diff == Abs(event_time - prediction.predicted_event_end)
        min_diff_hours == Min(start_diff, end_diff)
    IN  IF is_within_window(prediction, event_time)
          THEN Call(TimeResult(TRUE, start_diff), prediction, self)
        ELSE IF min_diff_hours <= self.time_tolerance
          THEN Call(TimeResult(TRUE, min_diff_hours), prediction, self)
        ELSE Call(TimeResult(FALSE, min_diff_hours), prediction, self)

\* The window's ends are whole hours, so half its length is a whole number of
\* half hours and timedelta(hours=time_window_hours() / 2) is exact.
check_time_match(self, prediction, event_time) ==
    LET window_center == prediction.predicted_event_start
                           + time_window_hours(prediction) \div 2
        start_diff == Abs(event_time - prediction.predicted_event_start)
        end_diff == Abs(event_time - prediction.predicted_event_end)
        min_diff_hours == Min(start_diff, end_diff)
    IN  IF is_within_window(prediction, event_time)
          THEN Call(TimeResult(TRUE, Abs(event_time - window_center)), prediction, self)
        ELSE IF min_diff_hours <= self.time_tolerance
          THEN Call(TimeResult(TRUE, min_diff_hours), prediction, self)
        ELSE Call(TimeResult(FALSE, min_diff_hours), prediction, self)

(***************************************************************************)
(* validator.py: check_location_match.  Positions lie on the lattice       *)
(* right ascension in {0, 60, .., 360}, declination in {-60, 0, 60}, where *)
(* the haversine term a is a multiple of 1/16.  Separations are counted in *)
(* thousandths of a degree.                                                *)
(***************************************************************************)
LatticeRa == {0, 60, 120, 180, 240, 300, 360}
LatticeDec == {-60, 0, 60}

\* 4 * sin(delta / 2) ** 2, for delta a multiple of 60 degrees.
SinSqHalf4(delta) == <<0, 1, 3, 4, 3, 1, 0>>[Abs(delta) \div 60 + 1]

\* 2 * cos(dec), for dec in LatticeDec.
Cos2(dec) == IF dec = 0 THEN 2 ELSE 1

\* 16 * a, a the haversine term.
Haversine16(ra1, dec1, ra2, dec2) ==
    LET d_ra == ra2 - ra1
        d_dec == dec2 - dec1
    IN  4 * SinSqHalf4(d_dec) + Cos2(dec1) * Cos2(dec2) * SinSqHalf4(d_ra)

\* math.degrees(2 * math.asin(math.sqrt(a16 / 16))), in thousandths of a degree.
AsinSqrtDeg(a16) ==
    <<0, 28955, 41410, 51318, 60000, 67976, 75522, 82819, 90000, 97181,
      104478, 112024, 120000, 128682, 138590, 151045, 180000>>[a16 + 1]

\* The double-precision computation (math.radians, sin, cos, sqrt, asin,
\* math.degrees) does not always return the exact separation.  Where the exact
\* separation is a whole number of degrees, these are the <<ra1, dec1, ra2, dec2>>
\* for which CPython's math module on IEEE-754 doubles returns more than the
\* exact value (RoundsUp) and less than it (RoundsDown); for every other pair
\* of lattice positions with such a separation it returns the exact value.
RoundsUp ==
          {<<0, -60, q[1], q[2]>> : q \in {<<180, -60>>, <<360, -60>>}}
    \cup {<<0, 0, q[1], q[2]>> : q \in {<<240, 0>>, <<360, 0>>}}
    \cup {<<0, 60, q[1], q[2]>> : q \in {<<180, 60>>, <<360, 60>>}}
    \cup {<<60, -60, q[1], q[2]>> : q \in {<<240, -60>>}}
    \cup {<<60, 0, q[1], q[2]>> : q \in {<<180, 0>>}}
    \cup {<<60, 60, q[1], q[2]>> : q \in {<<240, 60>>}}
    \cup {<<120, -60, q[1], q[2]>> : q \in {<<300, -60>>}}
    \cup {<<120, 0, q[1], q[2]>> : q \in {<<180, 0>>}}
    \cup {<<120, 60, q[1], q[2]>> : q \in {<<300, 60>>}}
    \cup {<<180, -60, q[1], q[2]>> : q \in {<<0, -60>>, <<360, -60>>}}
    \cup {<<180, 0, q[1], q[2]>> : q \in {<<60, 0>>, <<120, 0>>, <<300, 0>>}}
    \cup {<<180, 60, q[1], q[2]>> : q \in {<<0, 60>>, <<360, 60>>}}
    \cup {<<240, -60, q[1], q[2]>> : q \in {<<60, -60>>}}
    \cup {<<240, 0, q[1], q[2]>> : q \in {<<0, 0>>, <<300, 0>>, <<360, 0>>}}
    \cup {<<240, 60, q[1], q[2]>> : q \in {<<60, 60>>}}
    \cup {<<300, -60, q[1], q[2]>> : q \in {<<120, -60>>}}
    \cup {<<300, 0, q[1], q[2]>> : q \in {<<180, 0>>, <<240, 0>>}}
    \cup {<<300, 60, q[1], q[2]>> : q \in {<<120, 60>>}}
    \cup {<<360, -60, q[1], q[2]>> : q \in {<<0, -60>>, <<180, -60>>}}
    \cup {<<360, 0, q[1], q[2]>> : q \in {<<0, 0>>, <<240, 0>>}}
    \cup {<<360, 60, q[1], q[2]>> : q \in {<<0, 60>>, <<180, 60>>}}

RoundsDown ==
          {<<0, -60, q[1], q[2]>> : q \in {<<0, 0>>, <<0, 60>>, <<180, 0>>, <<360, 0>>, <<360, 60>>}}
    \cup {<<0, 0, q[1], q[2]>> : q \in {<<0, -60>>, <<0, 60>>, <<60, 0>>, <<120, 0>>, <<180, -60>>, <<180, 60>>, <<300, 0>>, <<360, -60>>, <<360, 60>>}}
    \cup {<<0, 60, q[1], q[2]>> : q \in {<<0, -60>>, <<0, 0>>, <<180, 0>>, <<360, -60>>, <<360, 0>>}}
    \cup {<<60, -60, q[1], q[2]>> : q \in {<<60, 0>>, <<60, 60>>, <<240, 0>>}}
    \cup {<<60, 0, q[1], q[2]>> : q \in {<<0, 0>>, <<60, -60>>, <<60, 60>>, <<120, 0>>, <<240, -60>>, <<240, 60>>, <<300, 0>>, <<360, 0>>}}
    \cup {<<60, 60, q[1], q[2]>> : q \in {<<60, -60>>, <<60, 0>>, <<240, 0>>}}
    \cup {<<120, -60, q[1], q[2]>> : q \in {<<120, 0>>, <<120, 60>>, <<300, 0>>}}
    \cup {<<120, 0, q[1], q[2]>> : q \in {<<0, 0>>, <<60, 0>>, <<120, -60>>, <<120, 60>>, <<240, 0>>, <<300, -60>>, <<300, 60>>, <<360, 0>>}}
    \cup {<<120, 60, q[1], q[2]>> : q \in {<<120, -60>>, <<120, 0>>, <<300, 0>>}}
    \cup {<<180, -60, q[1], q[2]>> : q \in {<<0, 0>>, <<180, 0>>, <<180, 60>>, <<360, 0>>}}
    \cup {<<180, 0, q[1], q[2]>> : q \in {<<0, -60>>, <<0, 60>>, <<180, -60>>, <<180, 60>>, <<240, 0>>, <<360, -60>>, <<360, 60>>}}
    \cup {<<180, 60, q[1], q[2]>> : q \in {<<0, 0>>, <<180, -60>>, <<180, 0>>, <<360, 0>>}}
    \cup {<<240, -60, q[1], q[2]>> : q \in {<<60, 0>>, <<240, 0>>, <<240, 60>>}}
    \cup {<<240, 0, q[1], q[2]>> : q \in {<<60, -60>>, <<60, 60>>, <<120, 0>>, <<180, 0>>, <<240, -60>>, <<240, 60>>}}
    \cup {<<240, 60, q[1], q[2]>> : q \in {<<60, 0>>, <<240, -60>>, <<240, 0>>}}
    \cup {<<300, -60, q[1], q[2]>> : q \in {<<120, 0>>, <<300, 0>>, <<300, 60>>}}
    \cup {<<300, 0, q[1], q[2]>> : q \in {<<0, 0>>, <<60, 0>>, <<120, -60>>, <<120, 60>>, <<300, -60>>, <<300, 60>>, <<360, 0>>}}
    \cup {<<300, 60, q[1], q[2]>> : q \in {<<120, 0>>, <<300, -60>>, <<300, 0>>}}
    \cup {<<360, -60, q[1], q[2]>> : q \in {<<0, 0>>, <<0, 60>>, <<180, 0>>, <<360, 0>>, <<360, 60>>}}
    \cup {<<360, 0, q[1], q[2]>> : q \in {<<0, -60>>, <<0, 60>>, <<60, 0>>, <<120, 0>>, <<180, -60>>, <<180, 60>>, <<300, 0>>, <<360, -60>>, <<360, 60>>}}
    \cup {<<360, 60, q[1], q[2]>> : q \in {<<0, -60>>, <<0, 0>>, <<180, 0>>, <<360, -60>>, <<360, 0>>}}

\* A separation: `milli` is the exact separation in thousandths of a degree,
\* `ulp` the side on which the computed double lies of it (-1, 0 or 1).
Separation(milli, ulp) == [milli |-> milli, ulp |-> ulp]

\* separation <= degrees, for a whole number of degrees.
SeparationLeq(separation, degrees) ==
    \/ separation.milli < 1000 * degrees
    \/ separation.milli = 1000 * degrees /\ separation.ulp <= 0

\* The separation as the haversine lines compute it.
separation_deg(ra1, dec1, ra2, dec2) ==
    LET exact == AsinSqrtDeg(Haversine16(ra1, dec1, ra2, dec2))
        ulp   == IF <<ra1, dec1, ra2, dec2>> \in RoundsUp THEN 1
                 ELSE IF <<ra1, dec1, ra2, dec2>> \in RoundsDown THEN -1
                 ELSE 0
    IN  Separation(exact, ulp)

LocationResult(match, sep) == [op |-> "check_location_match", match |-> match, distance |-> sep]

check_location_match(self, prediction, event_ra, event_dec) ==
    IF prediction.sky_location = None
      THEN Call(LocationResult(TRUE, Separation(0, 0)), prediction, self)
    ELSE
      LET loc == The(prediction.sky_location)
          separation == separation_deg(loc.right_ascension, loc.declination,
                                       event_ra, event_dec)
          total_tolerance == self.location_tolerance + loc.uncertainty_radius
      IN  Call(LocationResult(SeparationLeq(separation, total_tolerance), separation),
               prediction, self)

(***************************************************************************)
(* validator.py: check_frequency_match.  The difference is the fraction    *)
(* num / den percent; den = 0 is float("inf").                             *)
(***************************************************************************)
Rat(num, den) == [num |-> num, den |-> den]
Infinity == Rat(1, 0)

FrequencyResult(match, diff) == [op |-> "check_frequency_match", match |-> match, distance |-> diff]

\* Mutant: a predicted frequency of 0 is taken as no constraint.
check_frequency_match_ZeroUnconstrained(self, prediction, event_frequency) ==
    IF prediction.wave_parameters = None
        \/ The(prediction.wave_parameters).frequency_hz = 0
      THEN [ret |-> FrequencyResult(TRUE, Rat(0, 1)), prediction |-> prediction, self |-> self]
    ELSE
      LET pred_freq == The(prediction.wave_parameters).frequency_hz
      IN  [ret |-> FrequencyResult(
                     100 * Abs(event_frequency - pred_freq)
                       <= self.frequency_tolerance * pred_freq,
                     Rat(100 * Abs(event_frequency - pred_freq), pred_freq)),
           prediction |-> prediction, self |-> self]

\* Mutant: a difference of exactly the tolerance does not match.
check_frequency_match_Exclusive(self, prediction, event_frequency) ==
    IF prediction.wave_parameters = None
      THEN [ret |-> FrequencyResult(TRUE, Rat(0, 1)), prediction |-> prediction, self |-> self]
    ELSE
      LET pred_freq == The(prediction.wave_parameters).frequency_hz
      IN  IF pred_freq = 0
            THEN [ret |-> FrequencyResult(FALSE, Infinity),
                  prediction |-> prediction, self |-> self]
          ELSE [ret |-> FrequencyResult(
                          100 * Abs(event_frequency - pred_freq)
                            < self.frequency_tolerance * pred_freq,
                          Rat(100 * Abs(event_frequency - pred_freq), pred_freq)),
                prediction |-> prediction, self |-> self]

check_frequency_match(self, prediction, event_frequency) ==
    IF prediction.wave_parameters = None
      THEN Call(FrequencyResult(TRUE, Rat(0, 1)), prediction, self)
    ELSE
      LET pred_freq == The(prediction.wave_parameters).frequency_hz
      IN  IF pred_freq = 0
            THEN Call(FrequencyResult(FALSE, Infinity), prediction, self)
          ELSE
            \* diff_percent = abs(event_frequency - pred_freq) / pred_freq
            \*   <= frequency_tolerance_percent / 100
            Call(FrequencyResult(
                   100 * Abs(event_frequency - pred_freq)
                     <= self.frequency_tolerance * pred_freq,
                   Rat(100 * Abs(event_frequency - pred_freq), pred_freq)),
                 prediction, self)

(***************************************************************************)
(* validator.py: validate_against_event.  Scores are fractions.            *)
(***************************************************************************)
RECURSIVE Gcd(_, _)
Gcd(a, b) == IF b = 0 THEN a ELSE Gcd(b, a % b)
Lcm(a, b) == (a \div Gcd(a, b)) * b

RatAdd(x, y) ==
    LET den == Lcm(x.den, y.den)
    IN  Rat(x.num * (den \div x.den) + y.num * (den \div y.den), den)

RECURSIVE RatSum(_)
RatSum(scores) ==
    IF scores = <<>> THEN Rat(0, 1) ELSE RatAdd(Head(scores), RatSum(Tail(scores)))

\* max(0, 1 - diff / full) for a difference counted in whole units.
Score(diff, full) == Rat(Max(0, full - diff), full)

\* max(0, 1 - percent / 100) for a difference num / den percent.
PercentScore(diff) ==
    IF diff.den = 0 THEN Rat(0, 1)
    ELSE Rat(Max(0, 100 * diff.den - diff.num), 100 * diff.den)

\* Mutant: the validator marks the Prediction with the verdict it reached.
validate_against_event_Marks(self, prediction, event_time, event_ra, event_dec, event_frequency) ==
    LET t == check_time_match(self, prediction, event_time)
    IN  Call([op |-> "validate_against_event", prediction_id |-> prediction.id,
              overall_match |-> t.ret.match,
              checks |-> [time |-> t.ret, location |-> None, frequency |-> None],
              match_score |-> Score(t.ret.distance, Hours(48))],
             IF t.ret.match THEN mark_validated(prediction, "matched")
                            ELSE mark_invalidated(prediction),
             self)

\* Mutant: the sum of the sub-scores is divided by 3, whatever axes were evaluated.
validate_against_event_MeanOfThree(self, prediction, event_time, event_ra, event_dec, event_frequency) ==
    LET t == check_time_match(self, prediction, event_time)
        hasLocation == event_ra # None /\ event_dec # None
        l == IF hasLocation
               THEN check_location_match(self, prediction, The(event_ra), The(event_dec))
               ELSE [ret |-> NoResult, prediction |-> prediction, self |-> self]
        hasFrequency == event_frequency # None
        f == IF hasFrequency
               THEN check_frequency_match(self, prediction, The(event_frequency))
               ELSE [ret |-> NoResult, prediction |-> prediction, self |-> self]
        scores ==
               <<Score(t.ret.distance, Hours(48))>>
            \o (IF hasLocation THEN <<Score(l.ret.distance.milli, 1000 * 90)>> ELSE <<>>)
            \o (IF hasFrequency THEN <<PercentScore(f.ret.distance)>> ELSE <<>>)
        total == RatSum(scores)
    IN  [ret |-> [op            |-> "validate_against_event",
                  prediction_id |-> prediction.id,
                  overall_match |-> /\ t.ret.match
                                    /\ hasLocation => l.ret.match
                                    /\ hasFrequency => f.ret.match,
                  checks        |-> [time      |-> t.ret,
                                     location  |-> IF hasLocation THEN Some(l.ret) ELSE None,
                                     frequency |-> IF hasFrequency THEN Some(f.ret) ELSE None],
                  match_score   |-> Rat(total.num, total.den * 3)],
         prediction |-> prediction, self |-> self]

\* Mutant: an event_ra, event_dec or event_frequency of 0 is taken as not given.
validate_against_event_Truthy(self, prediction, event_time, event_ra, event_dec, event_frequency) ==
    LET t == check_time_match(self, prediction, event_time)
        hasLocation == /\ event_ra # None /\ event_dec # None
                       /\ The(event_ra) # 0 /\ The(event_dec) # 0
        l == IF hasLocation
               THEN check_location_match(self, prediction, The(event_ra), The(event_dec))
               ELSE [ret |-> NoResult, prediction |-> prediction, self |-> self]
        hasFrequency == event_frequency # None /\ The(event_frequency) # 0
        f == IF hasFrequency
               THEN check_frequency_match(self, prediction, The(event_frequency))
               ELSE [ret |-> NoResult, prediction |-> prediction, self |-> self]
        scores ==
               <<Score(t.ret.distance, Hours(48))>>
            \o (IF hasLocation THEN <<Score(l.ret.distance.milli, 1000 * 90)>> ELSE <<>>)
            \o (IF hasFrequency THEN <<PercentScore(f.ret.distance)>> ELSE <<>>)
        total == RatSum(scores)
    IN  [ret |-> [op            |-> "validate_against_event",
                  prediction_id |-> prediction.id,
                  overall_match |-> /\ t.ret.match
                                    /\ hasLocation => l.ret.match
                                    /\ hasFrequency => f.ret.match,
                  checks        |-> [time      |-> t.ret,
                                     location  |-> IF hasLocation THEN Some(l.ret) ELSE None,
                                     frequency |-> IF hasFrequency THEN Some(f.ret) ELSE None],
                  match_score   |-> Rat(total.num, total.den * Len(scores))],
         prediction |-> prediction, self |-> self]

validate_against_event(self, prediction, event_time, event_ra, event_dec, event_frequency) ==
    LET t == check_time_match(self, prediction, event_time)
        hasLocation == event_ra # None /\ event_dec # None
        l == IF hasLocation
               THEN check_location_match(t.self, t.prediction, The(event_ra),
                                         The(event_dec))
               ELSE Call(NoResult, t.prediction, t.self)
        hasFrequency == event_frequency # None
        f == IF hasFrequency
               THEN check_frequency_match(l.self, l.prediction, The(event_frequency))
               ELSE Call(NoResult, l.prediction, l.self)
        overall_match ==
            /\ t.ret.match
            /\ hasLocation => l.ret.match
            /\ hasFrequency => f.ret.match
        scores ==
               <<Score(t.ret.distance, Hours(48))>>
            \o (IF hasLocation THEN <<Score(l.ret.distance.milli, 1000 * 90)>> ELSE <<>>)
            \o (IF hasFrequency THEN <<PercentScore(f.ret.distance)>> ELSE <<>>)
        total == RatSum(scores)
        match_score ==
            IF Len(scores) > 0 THEN Rat(total.num, total.den * Len(scores))
            ELSE Rat(0, 1)
    IN  Call([op            |-> "validate_against_event",
              prediction_id |-> prediction.id,
              overall_match |-> overall_match,
              checks        |-> [time      |-> t.ret,
                                 location  |-> IF hasLocation THEN Some(l.ret) ELSE None,
                                 frequency |-> IF hasFrequency THEN Some(f.ret) ELSE None],
              match_score   |-> match_score],
             f.prediction, f.self)

(***************************************************************************)
(* parser.py.  A text is the sequence of its characters, each a string of  *)
(* one character.  The texts are written in ASCII; \s is then the set      *)
(* Whitespace and \w the set WordChars.                                    *)
(***************************************************************************)
UpperCase == <<"A", "B", "C", "D", "E", "F", "G", "H", "I", "J", "K", "L", "M", "N", "O", "P", "Q", "R", "S", "T", "U", "V", "W", "X", "Y", "Z">>
LowerCase == <<"a", "b", "c", "d", "e", "f", "g", "h", "i", "j", "k", "l", "m", "n", "o", "p", "q", "r", "s", "t", "u", "v", "w", "x", "y", "z">>
Digits == {"0", "1", "2", "3", "4", "5", "6", "7", "8", "9"}
Whitespace == {" ", "\t", "\n", "\r"}
WordChars == {UpperCase[i] : i \in 1 .. 26} \cup {LowerCase[i] : i \in 1 .. 26} \cup Digits \cup {"_"}

First(S) == CHOOSE i \in S : \A j \in S : i <= j
Last(S) == CHOOSE i \in S : \A j \in S : i >= j

\* str.lower() and str.upper()
Lowered == [c \in {UpperCase[i] : i \in 1 .. 26} |-> LowerCase[CHOOSE i \in 1 .. 26 : UpperCase[i] = c]]
lower(s) == [i \in 1 .. Len(s) |-> IF s[i] \in DOMAIN Lowered THEN Lowered[s[i]] ELSE s[i]]
upper(s) ==
    LET upper_char(c) == IF \E i \in 1 .. 26 : LowerCase[i] = c
                           THEN UpperCase[CHOOSE i \in 1 .. 26 : LowerCase[i] = c] ELSE c
    IN  [i \in 1 .. Len(s) |-> upper_char(s[i])]

\* Mutant: the text is taken as it is.
strip_Unstripped(s) == s

\* str.strip()
strip(s) ==
    LET kept == {i \in 1 .. Len(s) : s[i] \notin Whitespace}
    IN  IF kept = {} THEN <<>> ELSE SubSeq(s, First(kept), Last(kept))

\* w in s
contains(s, w) == \E i \in 1 .. Len(s) - Len(w) + 1 : \A k \in 1 .. Len(w) : s[i + k - 1] = w[k]

\* s.split(sep) for a separator of one character
RECURSIVE split(_, _)
split(s, sep) ==
    LET at == {i \in 1 .. Len(s) : s[i] = sep}
    IN  IF at = {} THEN <<s>>
        ELSE <<SubSeq(s, 1, First(at) - 1)>> \o split(SubSeq(s, First(at) + 1, Len(s)), sep)

(***************************************************************************)
(* Regular expressions.  The number of characters a greedy class* takes    *)
(* from position i; a literal at position i under re.IGNORECASE.  In every *)
(* pattern of PATTERNS a class that follows another is disjoint from it,   *)
(* so the greedy match is the only one.                                    *)
(***************************************************************************)
RECURSIVE RunLength(_, _, _)
RunLength(s, i, class) ==
    IF i > Len(s) \/ s[i] \notin class THEN 0 ELSE 1 + RunLength(s, i + 1, class)

LiteralAt(s, i, w) ==
    /\ i + Len(w) - 1 <= Len(s)
    /\ \A k \in 1 .. Len(w) : lower(<<s[i + k - 1]>>) = <<w[k]>>

\* The position after the words of `label` (with \s* between them) matched
\* at position i, or 0.
RECURSIVE LabelEnd(_, _, _)
LabelEnd(s, i, label) ==
    IF label = <<>> THEN i
    ELSE IF ~LiteralAt(s, i, Head(label)) THEN 0
    ELSE LET after == i + Len(Head(label))
         IN  IF Tail(label) = <<>> THEN after
             ELSE LabelEnd(s, after + RunLength(s, after, Whitespace), Tail(label))

\* The group a pattern (?:label|label)[sep]+([value]+) captures when matched at
\* position i (`least` is 1 for [sep]+ and 0 for [sep]*), or None.
RECURSIVE GroupAt(_, _, _, _)
GroupAt(s, i, labels, pattern) ==
    IF labels = <<>> THEN None
    ELSE
      LET after == LabelEnd(s, i, Head(labels))
          seps == RunLength(s, after, pattern.sep)
          from == after + seps
          taken == RunLength(s, from, pattern.value)
      IN  IF after # 0 /\ seps >= pattern.least /\ taken >= 1
            THEN Some(SubSeq(s, from, from + taken - 1))
          ELSE GroupAt(s, i, Tail(labels), pattern)

\* pattern.search(content).group(1), or None
RECURSIVE SearchFrom(_, _, _)
SearchFrom(pattern, content, i) ==
    IF i > Len(content) THEN None
    ELSE LET group == GroupAt(content, i, pattern.labels, pattern)
         IN  IF group # None THEN group ELSE SearchFrom(pattern, content, i + 1)

search(pattern, content) == SearchFrom(pattern, content, 1)

(***************************************************************************)
(* float(text).  A number is mant * 10 ** exp; float raises ValueError     *)
(* (here: None) for a text that is not                                     *)
(* [sign] (digits [. [digits]] | . digits) [e [sign] digits].              *)
(***************************************************************************)
\* int(s) for a text of digits
RECURSIVE DigitsValue(_)
DigitsValue(s) ==
    LET DigitValue(c) == CHOOSE d \in 0 .. 9 : <<"0", "1", "2", "3", "4", "5", "6", "7", "8", "9">>[d + 1] = c
    IN  IF s = <<>> THEN 0 ELSE 10 * DigitsValue(SubSeq(s, 1, Len(s) - 1)) + DigitValue(s[Len(s)])

float(s) ==
    LET \* [sign] digits, or None
        SignedDigits(t) ==
          LET minus == t # <<>> /\ t[1] = "-"
              digits == IF t # <<>> /\ t[1] \in {"+", "-"} THEN Tail(t) ELSE t
          IN  IF digits = <<>> \/ \E i \in 1 .. Len(digits) : digits[i] \notin Digits THEN None
              ELSE Some(IF minus THEN -DigitsValue(digits) ELSE DigitsValue(digits))
        signed == s # <<>> /\ s[1] \in {"+", "-"}
        body == IF signed THEN Tail(s) ELSE s
        es == {i \in 1 .. Len(body) : body[i] \in {"e", "E"}}
        mantissa == IF es = {} THEN body ELSE SubSeq(body, 1, First(es) - 1)
        exponent == IF es = {} THEN Some(0)
                    ELSE SignedDigits(SubSeq(body, First(es) + 1, Len(body)))
        dots == {i \in 1 .. Len(mantissa) : mantissa[i] = "."}
        digits == SelectSeq(mantissa, LAMBDA c : c # ".")
        decimals == IF dots = {} THEN 0 ELSE Len(mantissa) - First(dots)
    IN  IF \/ exponent = None
           \/ Cardinality(dots) > 1
           \/ digits = <<>>
           \/ \E i \in 1 .. Len(digits) : digits[i] \notin Digits
          THEN None
        ELSE Some([mant |-> (IF signed /\ s[1] = "-" THEN -1 ELSE 1) * DigitsValue(digits),
                   exp  |-> The(exponent) - decimals])

\* The number x counted in units of 10 ** e, a whole number for every number
\* in the texts parsed here.
RECURSIVE Pow10(_)
Pow10(n) == IF n = 0 THEN 1 ELSE 10 * Pow10(n - 1)

InUnits(x, e) ==
    IF x.exp >= e THEN x.mant * Pow10(x.exp - e) ELSE x.mant \div Pow10(e - x.exp)

(***************************************************************************)
(* parser.py: PATTERNS, and _extract_pattern for the patterns of the form  *)
(* (?:label|label)[sep]+([value]+) or (?:label|label)[sep]*([value]+).     *)
(***************************************************************************)
Separators == Whitespace \cup {":"}
PATTERNS ==
     \* frequency[:\s]+([0-9.]+)\s*(?:hz)?
    [frequency |->
       [labels |-> <<<<<<"f", "r", "e", "q", "u", "e", "n", "c", "y">>>>>>,
        sep    |-> Separators,
        least  |-> 1,
        value  |-> Digits \cup {"."}],
     \* amplitude[:\s]+([0-9.e\-+]+), where re.IGNORECASE lets e match E
     amplitude |->
       [labels |-> <<<<<<"a", "m", "p", "l", "i", "t", "u", "d", "e">>>>>>,
        sep    |-> Separators,
        least  |-> 1,
        value  |-> Digits \cup {".", "e", "E", "-", "+"}],
     \* chirp\s*mass[:\s]+([0-9.]+)\s*(?:solar\s*masses?|m...)?
     chirp_mass |->
       [labels |-> <<<<<<"c", "h", "i", "r", "p">>, <<"m", "a", "s", "s">>>>>>,
        sep    |-> Separators,
        least  |-> 1,
        value  |-> Digits \cup {"."}],
     \* distance[:\s]+([0-9.]+)\s*(?:mpc)?
     distance |->
       [labels |-> <<<<<<"d", "i", "s", "t", "a", "n", "c", "e">>>>>>,
        sep    |-> Separators,
        least  |-> 1,
        value  |-> Digits \cup {"."}],
     \* snr[:\s]+([0-9.]+)
     snr |->
       [labels |-> <<<<<<"s", "n", "r">>>>>>,
        sep    |-> Separators,
        least  |-> 1,
        value  |-> Digits \cup {"."}],
     \* confidence[:\s]+([0-9.]+)%?
     confidence |->
       [labels |-> <<<<<<"c", "o", "n", "f", "i", "d", "e", "n", "c", "e">>>>>>,
        sep    |-> Separators,
        least  |-> 1,
        value  |-> Digits \cup {"."}],
     \* (?:ra|right\s*ascension)[:\s]+([0-9.]+)
     right_ascension |->
       [labels |-> <<<<<<"r", "a">>>>, <<<<"r", "i", "g", "h", "t">>, <<"a", "s", "c", "e", "n", "s", "i", "o", "n">>>>>>,
        sep    |-> Separators,
        least  |-> 1,
        value  |-> Digits \cup {"."}],
     \* (?:dec|declination)[:\s]+([0-9.\-+]+)
     declination |->
       [labels |-> <<<<<<"d", "e", "c">>>>, <<<<"d", "e", "c", "l", "i", "n", "a", "t", "i", "o", "n">>>>>>,
        sep    |-> Separators,
        least  |-> 1,
        value  |-> Digits \cup {".", "-", "+"}],
     \* (?:id|simulation)[:\s#]*([A-Za-z0-9\-_]+)
     prediction_id |->
       [labels |-> <<<<<<"i", "d">>>>, <<<<"s", "i", "m", "u", "l", "a", "t", "i", "o", "n">>>>>>,
        sep    |-> Separators \cup {"#"},
        least  |-> 0,
        value  |-> WordChars \cup {"-"}]]

\* The value of a str that is one of the names the record model compares
\* against; any other str stays the sequence of its characters.
Intern(s) ==
    LET Spellings == <<<<"C", "I", "A">>, <<"S", "I", "A">>, <<"H", "I", "A">>, <<"I", "I", "A">>, <<"E", "x", "p", "e", "r", "i", "m", "e", "n", "t", "a", "l">>, <<"E", "X", "P", "E", "R", "I", "M", "E", "N", "T", "A", "L">>>>
        Names == <<"CIA", "SIA", "HIA", "IIA", "Experimental", "EXPERIMENTAL">>
    IN  IF \E i \in 1 .. Len(Names) : Spellings[i] = s
          THEN Names[CHOOSE i \in 1 .. Len(Names) : Spellings[i] = s] ELSE s

\* framework[:\s]+(CIA|SIA|HIA|IIA|Experimental), re.IGNORECASE: the group as
\* the text writes it, or None.
search_framework(content) ==
    LET FrameworkAt(s, i) ==
          LET after == LabelEnd(s, i, <<<<"f", "r", "a", "m", "e", "w", "o", "r", "k">>>>)
              from == after + RunLength(s, after, Separators)
              words == <<<<"c", "i", "a">>, <<"s", "i", "a">>, <<"h", "i", "a">>, <<"i", "i", "a">>, <<"e", "x", "p", "e", "r", "i", "m", "e", "n", "t", "a", "l">>>>
              found == {k \in 1 .. Len(words) : LiteralAt(s, from, words[k])}
          IN  IF after # 0 /\ from > after /\ found # {}
                THEN Some(SubSeq(s, from, from + Len(words[First(found)]) - 1))
              ELSE None
        hits == {i \in 1 .. Len(content) : FrameworkAt(content, i) # None}
    IN  IF hits = {} THEN None ELSE FrameworkAt(content, First(hits))

(***************************************************************************)
(* parser.py: TYPE_KEYWORDS and the methods of PredictionParser.           *)
(***************************************************************************)
\* <<prediction type, keywords>>, in the order of the dict
TYPE_KEYWORDS ==
    <<<<"GRAVITATIONAL_WAVE", <<<<"g", "r", "a", "v", "i", "t", "a", "t", "i", "o", "n", "a", "l">>, <<"g", "w">>, <<"l", "i", "g", "o">>, <<"m", "e", "r", "g", "e", "r">>, <<"b", "i", "n", "a", "r", "y">>>>>>,
      <<"GAMMA_RAY", <<<<"g", "a", "m", "m", "a">>, <<"g", "r", "b">>, <<"b", "u", "r", "s", "t">>>>>>,
      <<"SOLAR_FLARE", <<<<"s", "o", "l", "a", "r">>, <<"f", "l", "a", "r", "e">>, <<"c", "m", "e">>, <<"s", "u", "n">>>>>>,
      <<"TECTONIC", <<<<"t", "e", "c", "t", "o", "n", "i", "c">>, <<"e", "a", "r", "t", "h", "q", "u", "a", "k", "e">>, <<"s", "e", "i", "s", "m", "i", "c">>, <<"q", "u", "a", "k", "e">>>>>>,
      <<"BLACK_HOLE", <<<<"b", "l", "a", "c", "k", " ", "h", "o", "l", "e">>, <<"b", "l", "a", "c", "k", "h", "o", "l", "e">>, <<"e", "v", "e", "n", "t", " ", "h", "o", "r", "i", "z", "o", "n">>>>>>,
      <<"TSUNAMI", <<<<"t", "s", "u", "n", "a", "m", "i">>, <<"t", "i", "d", "a", "l", " ", "w", "a", "v", "e">>>>>>>>

_extract_pattern(pattern, content) == search(pattern, content)

\* Mutant: the last type of the dict with a keyword in the text wins.
_infer_prediction_type_LastMatch(content) ==
    LET content_lower == lower(content)
        hits == {k \in 1 .. Len(TYPE_KEYWORDS) :
                   \E j \in 1 .. Len(TYPE_KEYWORDS[k][2]) :
                      contains(content_lower, TYPE_KEYWORDS[k][2][j])}
    IN  IF hits = {} THEN "GRAVITATIONAL_WAVE" ELSE TYPE_KEYWORDS[Last(hits)][1]

_infer_prediction_type(content) ==
    LET content_lower == lower(content)
        hits == {k \in 1 .. Len(TYPE_KEYWORDS) :
                   \E j \in 1 .. Len(TYPE_KEYWORDS[k][2]) :
                      contains(content_lower, TYPE_KEYWORDS[k][2][j])}
    IN  IF hits = {} THEN "GRAVITATIONAL_WAVE" ELSE TYPE_KEYWORDS[First(hits)][1]

\* float(text) in units of 10 ** e, None for the ValueError
FloatIn(text, e) ==
    IF float(text) = None THEN None ELSE Some(InUnits(The(float(text)), e))

\* _safe_float(value), in units of 10 ** e
_safe_float(value, e) == IF value = None THEN None ELSE FloatIn(The(value), e)

\* Mutant: WaveParameters are built from the defaults when neither pattern is
\* found.
_extract_wave_parameters_AlwaysBuilt(content) ==
    LET frequency == _extract_pattern(PATTERNS.frequency, content)
        amplitude == _extract_pattern(PATTERNS.amplitude, content)
        frequency_hz == IF frequency # None THEN FloatIn(The(frequency), 0) ELSE Some(100)
        amplitude_v == IF amplitude # None THEN FloatIn(The(amplitude), -21) ELSE Some(1)
        self == WaveParameters(The(frequency_hz), The(amplitude_v), None, None, None)
    IN  IF frequency_hz = None \/ amplitude_v = None THEN None
        ELSE IF WaveParameters_post_init(self) # "" THEN None
        ELSE Some(self)

\* An amplitude is counted in units of 1e-21.
_extract_wave_parameters(content) ==
    LET frequency == _extract_pattern(PATTERNS.frequency, content)
        amplitude == _extract_pattern(PATTERNS.amplitude, content)
        frequency_hz == IF frequency # None THEN FloatIn(The(frequency), 0) ELSE Some(100)
        amplitude_v == IF amplitude # None THEN FloatIn(The(amplitude), -21) ELSE Some(1)
        self == WaveParameters(The(frequency_hz), The(amplitude_v),
                               _safe_float(_extract_pattern(PATTERNS.chirp_mass, content), 0),
                               _safe_float(_extract_pattern(PATTERNS.distance, content), 0),
                               _safe_float(_extract_pattern(PATTERNS.snr, content), 0))
    IN  IF frequency = None /\ amplitude = None THEN None
        \* except ValueError: from float(...) or from WaveParameters.__post_init__
        ELSE IF frequency_hz = None \/ amplitude_v = None THEN None
        ELSE IF WaveParameters_post_init(self) # "" THEN None
        ELSE Some(self)

\* Mutant: a coordinate that is not found is taken as 0.
_extract_sky_location_Either(content) ==
    LET ra == _extract_pattern(PATTERNS.right_ascension, content)
        dec == _extract_pattern(PATTERNS.declination, content)
        right_ascension == IF ra = None THEN Some(0) ELSE FloatIn(The(ra), 0)
        declination == IF dec = None THEN Some(0) ELSE FloatIn(The(dec), 0)
        self == SkyLocation(The(right_ascension), The(declination), 0)
    IN  IF ra = None /\ dec = None THEN None
        ELSE IF right_ascension = None \/ declination = None THEN None
        ELSE IF SkyLocation_post_init(self) # "" THEN None
        ELSE Some(self)

_extract_sky_location(content) ==
    LET ra == _extract_pattern(PATTERNS.right_ascension, content)
        dec == _extract_pattern(PATTERNS.declination, content)
        right_ascension == FloatIn(The(ra), 0)
        declination == FloatIn(The(dec), 0)
        self == SkyLocation(The(right_ascension), The(declination), 0)
    IN  IF ra = None \/ dec = None THEN None
        \* except ValueError: from float(...) or from SkyLocation.__post_init__
        ELSE IF right_ascension = None \/ declination = None THEN None
        ELSE IF SkyLocation_post_init(self) # "" THEN None
        ELSE Some(self)

NoDescription == <<"N", "o", " ", "d", "e", "s", "c", "r", "i", "p", "t", "i", "o", "n", " ", "a", "v", "a", "i", "l", "a", "b", "l", "e">>

_extract_description(content) ==
    LET lines == split(strip(content), "\n")
        good == {k \in 1 .. Len(lines) :
                   LET line == strip(lines[k])
                   IN  line # <<>> /\ line[1] # "#" /\ Len(line) > 10}
    IN  IF good = {} THEN NoDescription
        ELSE LET line == strip(lines[First(good)])
             IN  SubSeq(line, 1, Min(Len(line), 200))

\* set(re.findall(r"#(\w+)", content))
found_tags(content) ==
    {SubSeq(content, i + 1, i + RunLength(content, i + 1, WordChars)) :
       i \in {j \in 1 .. Len(content) :
                content[j] = "#" /\ RunLength(content, j + 1, WordChars) >= 1}}

\* list(set(tags))[:10]: the orders a set can be listed in
_extract_tags(content) ==
    LET tags == found_tags(content)
        n == Min(Cardinality(tags), 10)
    IN  {order \in [1 .. n -> tags] : \A i, j \in 1 .. n : order[i] = order[j] => i = j}

\* Path(source).stem
stem(source) ==
    LET slashes == {i \in 1 .. Len(source) : source[i] = "/"}
        name == IF slashes = {} THEN source ELSE SubSeq(source, Last(slashes) + 1, Len(source))
        dots == {i \in 2 .. Len(name) - 1 : name[i] = "."}
    IN  IF dots = {} THEN name ELSE SubSeq(name, 1, Last(dots) - 1)

_generate_id(source) == <<"P", "R", "E", "D", "-">> \o stem(source)

(***************************************************************************)
(* parser.py: the date pattern (\d{1,2}[/\-]\d{1,2}[/\-]\d{2,4}) and       *)
(* _parse_date.  A date token is kept as its three digit groups and two    *)
(* separators.                                                             *)
(***************************************************************************)
\* The token matched at position i, or None.  \d{1,2} takes two digits where
\* there are two; giving one back leaves a digit where a separator must be.
DateAt(s, i) ==
    LET DateSeparators == {"/", "-"}
        n1 == Min(RunLength(s, i, Digits), 2)
        a == i + n1
        n2 == Min(RunLength(s, a + 1, Digits), 2)
        b == a + 1 + n2
        n3 == Min(RunLength(s, b + 1, Digits), 4)
    IN  IF /\ n1 >= 1 /\ a <= Len(s) /\ s[a] \in DateSeparators
           /\ n2 >= 1 /\ b <= Len(s) /\ s[b] \in DateSeparators
           /\ n3 >= 2
          THEN Some([first |-> SubSeq(s, i, a - 1), sep1 |-> s[a],
                     second |-> SubSeq(s, a + 1, b - 1), sep2 |-> s[b],
                     third |-> SubSeq(s, b + 1, b + n3)])
        ELSE None

\* PATTERNS["date"].findall(content)[0], or None when findall returns []
first_date(content) ==
    LET hits == {i \in 1 .. Len(content) : DateAt(content, i) # None}
    IN  IF hits = {} THEN None ELSE DateAt(content, First(hits))

\* datetime(year, month, day) in ticks since 2025-01-01, None for the
\* ValueError of a date the calendar does not have.
datetime(year, month, day) ==
    LET IsLeap(y) == y % 4 = 0 /\ (y % 100 # 0 \/ y % 400 = 0)
        DaysInMonth == <<31, IF IsLeap(year) THEN 29 ELSE 28, 31, 30, 31, 30, 31, 31, 30, 31, 30, 31>>
        DaysBeforeMonth == <<0, 31, 59, 90, 120, 151, 181, 212, 243, 273, 304, 334>>
        DaysBeforeYear(y) == 365 * (y - 1) + (y - 1) \div 4 - (y - 1) \div 100 + (y - 1) \div 400
        ordinal == DaysBeforeYear(year) + DaysBeforeMonth[month]
                   + (IF month > 2 /\ IsLeap(year) THEN 1 ELSE 0) + day
    IN  IF year < 1 \/ month \notin 1 .. 12 \/ day < 1 THEN None
        ELSE IF day > DaysInMonth[month] THEN None
        ELSE Some(Hours(24) * (ordinal - (DaysBeforeYear(2025) + 1)))

\* datetime.strptime(date_str, fmt) for the formats of _parse_date: `sep` is
\* the separator of the format, `year` the directive of the year ("%Y" or
\* "%y") and yearFirst tells whether the year is the first group.
strptime(date, sep, year, yearFirst) ==
    LET y == IF yearFirst THEN date.first ELSE date.third
        m == IF yearFirst THEN date.second ELSE date.first
        d == IF yearFirst THEN date.third ELSE date.second
        yy == DigitsValue(y)
    IN  IF date.sep1 # sep \/ date.sep2 # sep THEN None
        ELSE IF Len(y) # (IF year = "%Y" THEN 4 ELSE 2) THEN None
        ELSE IF DigitsValue(m) \notin 1 .. 12 \/ DigitsValue(d) \notin 1 .. 31 THEN None
        ELSE datetime(IF year = "%Y" THEN yy ELSE IF yy < 69 THEN 2000 + yy ELSE 1900 + yy,
                      DigitsValue(m), DigitsValue(d))

\* <<separator, year directive, year first>> of
\* "%m/%d/%Y", "%m-%d-%Y", "%m/%d/%y", "%m-%d-%y", "%Y-%m-%d"
formats ==
    <<<<"/", "%Y", FALSE>>, <<"-", "%Y", FALSE>>, <<"/", "%y", FALSE>>,
      <<"-", "%y", FALSE>>, <<"-", "%Y", TRUE>>>>

\* _parse_date(date_str): the first format that parses, None for the ValueError
_parse_date(date) ==
    LET good == {k \in 1 .. Len(formats) :
                   strptime(date, formats[k][1], formats[k][2], formats[k][3]) # None}
    IN  IF good = {} THEN None
        ELSE strptime(date, formats[First(good)][1], formats[First(good)][2],
                      formats[First(good)][3])

(***************************************************************************)
(* parser.py: parse_content.  `now` is datetime.now() and `tags` the order *)
(* list(set(tags)) came in.  Returns the exception raised, or "" and the   *)
(* Prediction.                                                             *)
(***************************************************************************)
\* float(confidence_str) / 100 if confidence_str else 0.5, then / 100 again
\* if it is above 1, in millionths
confidence_of(confidence_str) ==
    IF confidence_str = None THEN Percent(50)
    ELSE LET x == The(float(The(confidence_str)))
             confidence == InUnits(x, -4)
         IN  IF confidence > Percent(100) THEN InUnits(x, -2) ELSE confidence

parse_content(content, source_file, now, tags) ==
    LET id == _extract_pattern(PATTERNS.prediction_id, content)
        prediction_id == IF id # None THEN The(id) ELSE _generate_id(source_file)
        found == search_framework(content)
        framework == IF found # None THEN The(found) ELSE <<"E", "x", "p", "e", "r", "i", "m", "e", "n", "t", "a", "l">>
        prediction_type == _infer_prediction_type(content)
        confidence_str == _extract_pattern(PATTERNS.confidence, content)
        confidence == confidence_of(confidence_str)
        wave_params == IF prediction_type = "GRAVITATIONAL_WAVE"
                         THEN _extract_wave_parameters(content) ELSE None
        sky_location == _extract_sky_location(content)
        date == first_date(content)
        event_date == IF date # None /\ _parse_date(The(date)) # None
                        THEN The(_parse_date(The(date))) ELSE now
        self == Prediction(prediction_id, prediction_type, now, event_date,
                           event_date + Hours(24),
                           Intern(IF framework # <<"E", "x", "p", "e", "r", "i", "m", "e", "n", "t", "a", "l">> THEN upper(framework) ELSE framework),
                           Min(Max(confidence, 0), Percent(100)),
                           _extract_description(content), sky_location, wave_params, tags)
    IN  IF strip(content) = <<>> THEN [raised |-> "ParseError", value |-> None]
        ELSE IF confidence_str # None /\ float(The(confidence_str)) = None
          THEN [raised |-> "ValueError", value |-> None]
        ELSE IF Prediction_post_init(self) # "" THEN [raised |-> "ValueError", value |-> None]
        ELSE [raised |-> "", value |-> Some(self)]

(***************************************************************************)
(* LIGOClient in mock mode (ligo_client.py).  A GravitationalWaveEvent is   *)
(* kept as its event_id and event_time; the other fields take no part in   *)
(* the filtering.                                                          *)
(***************************************************************************)
GravitationalWaveEvent(event_id, event_time) ==
    [event_id |-> event_id, event_time |-> event_time]

LIGOClient(mock_mode) == [mock_mode |-> mock_mode, _mock_events |-> <<>>]

set_mock_events(self, events) == [self EXCEPT !._mock_events = events]

\* events[:limit] is the first limit elements, or all but the last -limit of
\* them when limit is negative.
_filter_mock_events_TruncateFirst(self, start_time, end_time, limit) ==
    LET stored == self._mock_events
        events == IF limit >= 0
                  THEN SubSeq(stored, 1, Min(limit, Len(stored)))
                  ELSE SubSeq(stored, 1, Max(0, Len(stored) + limit))
        after == IF start_time # None
                 THEN SelectSeq(events, LAMBDA e : e.event_time >= The(start_time))
                 ELSE events
    IN  IF end_time # None
        THEN SelectSeq(after, LAMBDA e : e.event_time <= The(end_time))
        ELSE after

_filter_mock_events(self, start_time, end_time, limit) ==
    LET events == self._mock_events
        after == IF start_time # None
                 THEN SelectSeq(events, LAMBDA e : e.event_time >= The(start_time))
                 ELSE events
        before == IF end_time # None
                  THEN SelectSeq(after, LAMBDA e : e.event_time <= The(end_time))
                  ELSE after
    IN  IF limit >= 0
        THEN SubSeq(before, 1, Min(limit, Len(before)))
        ELSE SubSeq(before, 1, Max(0, Len(before) + limit))

get_superevents(self, start_time, end_time, limit) ==
    _filter_mock_events(self, start_time, end_time, limit)

(***************************************************************************)
(* The arguments callers construct records from.  Each set holds values    *)
(* inside, on and outside the bounds the constructors check.               *)
(***************************************************************************)
RaArgs == {-1, 0, 360, 361}
DecArgs == {-91, -90, 90, 91}
RadiusArgs == {-1, 0, 5}
FreqArgs == {-1, 0, 100}
AmpArgs == {-1, 0, 2}
ChirpArgs == {None, Some(30)}
IdArgs == {"PRED-001", "PRED-002"}
TypeArgs == {"GRAVITATIONAL_WAVE", "SOLAR_FLARE"}
CreatedArgs == {Hours(0), Hours(1)}
StartArgs == {Hours(0), Hours(2)}
EndArgs == {Hours(0), Hours(2), Hours(4)}
FrameworkArgs == valid_frameworks \cup {"INVALID"}
ConfidenceArgs == {-1, 0, Percent(50), Percent(100), Percent(100) + 1}
DescriptionArgs == {"Binary black hole merger", "No description available"}
TagArgs == {<<>>, <<"gw">>}
EventIds == {"GW250115a", "GW250116b"}

\* The attributes callers assign to after construction, with the values assigned.
AssignableArgs ==
    [confidence            |-> ConfidenceArgs,
     predicted_event_start |-> StartArgs,
     predicted_event_end   |-> EndArgs,
     framework             |-> FrameworkArgs]

\* The fields the constructor does not check vary one at a time around these.
BaseId == "PRED-001"
BaseType == "GRAVITATIONAL_WAVE"
BaseCreated == Hours(0)
BaseDescription == "Binary black hole merger"
BaseTags == <<>>

UncheckedArgs ==
       { <<i, BaseType, BaseCreated, BaseDescription, BaseTags>> : i \in IdArgs }
  \cup { <<BaseId, t, BaseCreated, BaseDescription, BaseTags>> : t \in TypeArgs }
  \cup { <<BaseId, BaseType, c, BaseDescription, BaseTags>> : c \in CreatedArgs }
  \cup { <<BaseId, BaseType, BaseCreated, d, BaseTags>> : d \in DescriptionArgs }
  \cup { <<BaseId, BaseType, BaseCreated, BaseDescription, g>> : g \in TagArgs }

(***************************************************************************)
(* Operations.  A constructor that raises leaves no object behind: the     *)
(* variable it would have been bound to keeps its value.  The ValueError   *)
(* is not caught: it ends the caller's run.                                *)
(***************************************************************************)
Running == raised = ""

Init ==
    /\ sky = None
    /\ client = LIGOClient(TRUE)
    /\ wave = None
    /\ pred = None
    /\ other = None
    /\ validator = DefaultValidator
    /\ lastOp = "start"
    /\ raised = ""
    /\ args = None
    /\ digest0 = None
    /\ digest = None
    /\ digestOther = None
    /\ result = NoResult

\* sky = SkyLocation(ra, dec, radius)
NewSkyLocation ==
    /\ Running
    /\ pred = None
    /\ \E ra \in RaArgs, dec \in DecArgs, radius \in RadiusArgs :
         LET self == SkyLocation(ra, dec, radius)
             err  == SkyLocation_post_init(self)
         IN  /\ raised' = err
             /\ args' = Some(self)
             /\ sky' = IF err = "" THEN Some(self) ELSE sky
    /\ lastOp' = "SkyLocation"
    /\ UNCHANGED <<wave, pred, other, client, validator, digest0, digest, digestOther>>
    /\ result' = NoResult

\* wave = WaveParameters(freq, amp, chirp_mass=chirp)
NewWaveParameters ==
    /\ Running
    /\ pred = None
    /\ \E freq \in FreqArgs, amp \in AmpArgs, chirp \in ChirpArgs :
         LET self == WaveParameters(freq, amp, chirp, None, None)
             err  == WaveParameters_post_init(self)
         IN  /\ raised' = err
             /\ args' = Some(self)
             /\ wave' = IF err = "" THEN Some(self) ELSE wave
    /\ lastOp' = "WaveParameters"
    /\ UNCHANGED <<sky, pred, other, client, validator, digest0, digest, digestOther>>
    /\ result' = NoResult

\* prediction = Prediction(..., sky_location=sky, wave_parameters=wave)
NewPrediction ==
    /\ Running
    /\ pred = None
    /\ \E u \in UncheckedArgs, start \in StartArgs, end \in EndArgs,
          framework \in FrameworkArgs, confidence \in ConfidenceArgs :
         LET self == Prediction(u[1], u[2], u[3], start, end, framework, confidence,
                                u[4], sky, wave, u[5])
             err  == Prediction_post_init(self)
         IN  /\ raised' = err
             /\ args' = Some(self)
             /\ pred' = IF err = "" THEN Some(self) ELSE pred
    /\ lastOp' = "Prediction"
    /\ UNCHANGED <<sky, wave, other, client, validator, digest0, digest, digestOther>>
    /\ result' = NoResult

\* prediction.mark_validated(event_id)
MarkValidated ==
    /\ Running
    /\ pred # None
    /\ \E event_id \in EventIds :
         pred' = Some(mark_validated(The(pred), event_id))
    /\ lastOp' = "mark_validated"
    /\ raised' = ""
    /\ args' = None
    /\ UNCHANGED <<sky, wave, other, client, validator, digest0, digest, digestOther>>
    /\ result' = NoResult

\* prediction.mark_invalidated()
MarkInvalidated ==
    /\ Running
    /\ pred # None
    /\ pred' = Some(mark_invalidated(The(pred)))
    /\ lastOp' = "mark_invalidated"
    /\ raised' = ""
    /\ args' = None
    /\ UNCHANGED <<sky, wave, other, client, validator, digest0, digest, digestOther>>
    /\ result' = NoResult

\* digest = HashVerifier.compute_prediction_hash(prediction); the caller keeps
\* the first digest it took of the Prediction in digest0.
ComputePredictionHash ==
    /\ Running
    /\ pred # None
    /\ digest' = Some(compute_prediction_hash(The(pred)))
    /\ digest0' = IF digest0 = None THEN digest' ELSE digest0
    /\ lastOp' = "compute_prediction_hash"
    /\ raised' = ""
    /\ args' = None
    /\ UNCHANGED <<sky, wave, pred, other, client, validator, digestOther>>
    /\ result' = NoResult

\* prediction.<name> = value: Prediction is a plain (not frozen) dataclass, so
\* an attribute assignment stores the value; __post_init__ does not run again.
SetAttr ==
    /\ Running
    /\ pred # None
    /\ \E name \in DOMAIN AssignableArgs :
         \E value \in AssignableArgs[name] :
            pred' = Some([The(pred) EXCEPT ![name] = value])
    /\ lastOp' = "setattr"
    /\ raised' = ""
    /\ args' = None
    /\ UNCHANGED <<sky, wave, other, client, validator, digest0, digest, digestOther>>
    /\ result' = NoResult

Next ==
    \/ NewSkyLocation
    \/ NewWaveParameters
    \/ NewPrediction
    \/ MarkValidated
    \/ MarkInvalidated
    \/ ComputePredictionHash

Spec == Init /\ [][Next]_vars

\* The record model with attribute assignment by the caller.
NextAssign ==
    \/ NewPrediction
    \/ SetAttr
    \/ MarkValidated
    \/ MarkInvalidated

SpecAssign == Init /\ [][NextAssign]_vars

(***************************************************************************)
(* Two Predictions and their digests.  The second differs from the first   *)
(* in at most MaxDiff places: a field given another value, a sub-record    *)
(* replaced, or a lifecycle call made.  Both are objects the constructors  *)
(* accept.                                                                 *)
(***************************************************************************)
SkyValues ==
    {None} \cup {Some(SkyLocation(ra, dec, radius)) :
                    ra \in {0, 180}, dec \in {0, 60}, radius \in {0, 5}}

WaveExtras ==
    {<<None, None, None>>, <<Some(30), None, None>>,
     <<None, Some(500), None>>, <<None, None, Some(15)>>}

WaveValues ==
    {None} \cup {Some(WaveParameters(freq, amp, x[1], x[2], x[3])) :
                    freq \in {100, 120}, amp \in {1, 2}, x \in WaveExtras}

HashBases ==
    {Prediction(BaseId, BaseType, BaseCreated, Hours(0), Hours(2), "CIA", Percent(50),
                BaseDescription, s, w, BaseTags) :
        s \in {None, Some(SkyLocation(180, 0, 0))},
        w \in {None, Some(WaveParameters(100, 1, None, None, None))}}

Variants(p) ==
    LET changed ==
               {[p EXCEPT !.id = v] : v \in IdArgs}
          \cup {[p EXCEPT !.prediction_type = v] : v \in TypeArgs}
          \cup {[p EXCEPT !.created_at = v] : v \in CreatedArgs}
          \cup {[p EXCEPT !.predicted_event_start = v] : v \in StartArgs}
          \cup {[p EXCEPT !.predicted_event_end = v] : v \in EndArgs}
          \cup {[p EXCEPT !.framework = v] : v \in FrameworkArgs}
          \cup {[p EXCEPT !.confidence = v] : v \in ConfidenceArgs}
          \cup {[p EXCEPT !.description = v] : v \in DescriptionArgs}
          \cup {[p EXCEPT !.tags = v] : v \in TagArgs}
          \cup {[p EXCEPT !.sky_location = v] : v \in SkyValues}
          \cup {[p EXCEPT !.wave_parameters = v] : v \in WaveValues}
          \cup {mark_validated(p, e) : e \in EventIds}
          \cup {mark_invalidated(p)}
    IN  {q \in changed : Prediction_post_init(q) = ""}

RECURSIVE VariantsWithin(_, _)
VariantsWithin(ps, n) ==
    IF n = 0 THEN ps
    ELSE VariantsWithin(ps \cup UNION {Variants(p) : p \in ps}, n - 1)

InitHash ==
    /\ sky = None
    /\ client = LIGOClient(TRUE)
    /\ wave = None
    /\ pred \in {Some(p) : p \in HashBases}
    /\ other \in {Some(q) : q \in VariantsWithin({The(pred)}, MaxDiff)}
    /\ validator = DefaultValidator
    /\ lastOp = "start"
    /\ raised = ""
    /\ args = None
    /\ digest0 = None
    /\ digest = None
    /\ digestOther = None
    /\ result = NoResult

\* digest = compute_prediction_hash(prediction);
\* digestOther = compute_prediction_hash(other)
ComputeBothHashes ==
    /\ Running
    /\ pred # None /\ other # None
    /\ digest' = Some(compute_prediction_hash(The(pred)))
    /\ digestOther' = Some(compute_prediction_hash(The(other)))
    /\ digest0' = IF digest0 = None THEN digest' ELSE digest0
    /\ lastOp' = "compute_prediction_hash"
    /\ raised' = ""
    /\ args' = None
    /\ UNCHANGED <<sky, wave, pred, other, client, validator>>
    /\ result' = NoResult

NextHash == ComputeBothHashes

SpecHash == InitHash /\ [][NextHash]_vars

(***************************************************************************)
(* Matching: a Prediction, a validator, and the events it is checked       *)
(* against.  The consumer calls the validator for one event at a time: it  *)
(* reads the verdict, makes a lifecycle call or none, and goes on to the   *)
(* next event.                                                             *)
(***************************************************************************)
Idle == result = NoResult
MatchWindows == {<<Hours(2), Hours(4)>>, <<Hours(2), Hours(5)>>, <<Hours(3), Hours(3)>>}
MatchSky ==
    {None, Some(SkyLocation(180, 0, 0)), Some(SkyLocation(180, 0, 30)),
     Some(SkyLocation(60, 60, 0))}
MatchWave == {None, Some(WaveParameters(100, 1, None, None, None))}

MatchPredictions ==
    {p \in {Prediction(BaseId, BaseType, BaseCreated, w[1], w[2], "CIA", Percent(85),
                       BaseDescription, s, x, BaseTags) :
              w \in MatchWindows, s \in MatchSky, x \in MatchWave} :
        Prediction_post_init(p) = ""}

\* <<time_tolerance_hours, location_tolerance_degrees, frequency_tolerance_percent>>
ToleranceArgs ==
    {<<DEFAULT_TIME_TOLERANCE_HOURS, DEFAULT_LOCATION_TOLERANCE_DEGREES,
       DEFAULT_FREQUENCY_TOLERANCE_PERCENT>>,
     <<1, DEFAULT_LOCATION_TOLERANCE_DEGREES, DEFAULT_FREQUENCY_TOLERANCE_PERCENT>>,
     <<2, DEFAULT_LOCATION_TOLERANCE_DEGREES, DEFAULT_FREQUENCY_TOLERANCE_PERCENT>>,
     <<DEFAULT_TIME_TOLERANCE_HOURS, 60, DEFAULT_FREQUENCY_TOLERANCE_PERCENT>>,
     <<DEFAULT_TIME_TOLERANCE_HOURS, DEFAULT_LOCATION_TOLERANCE_DEGREES, 10>>}

\* Event times up to MaxHour, and those around one default tolerance after the
\* windows' ends.
LateTimes == Hours(DEFAULT_TIME_TOLERANCE_HOURS + 3) .. Hours(DEFAULT_TIME_TOLERANCE_HOURS + 6)
EventTimes == (0 .. Hours(MaxHour)) \cup LateTimes
EventFrequencies == {0, 50, 100, 110, 111, 150, 151}
\* The event_time passed to validate_against_event: before, on the ends of, inside
\* and after the windows.
AggregateTimes == {Hours(0), Hours(2), Hours(3), Hours(4), Hours(MaxHour)}
\* The <<event_ra, event_dec>> passed to validate_against_event.
EventPositions ==
    {<<None, None>>, <<Some(180), None>>, <<None, Some(0)>>, <<Some(180), Some(0)>>,
     <<Some(120), Some(0)>>, <<Some(0), Some(0)>>, <<Some(0), Some(60)>>}
EventFrequencyArgs == {None, Some(0), Some(100), Some(151)}
\* An event ten days after the end of the window.
TenDaysAfter(prediction) == prediction.predicted_event_end + Hours(10 * 24)

InitMatch ==
    /\ sky = None
    /\ client = LIGOClient(TRUE)
    /\ wave = None
    /\ pred \in {Some(p) : p \in MatchPredictions}
    /\ other = None
    /\ validator \in {PredictionValidator(a[1], a[2], a[3]) : a \in ToleranceArgs}
    /\ lastOp = "start"
    /\ raised = ""
    /\ args = None
    /\ digest0 = None
    /\ digest = None
    /\ digestOther = None
    /\ result = NoResult

\* The step a validator call makes: its return value is kept in `result`, and
\* the objects are left as the call left them.
Returns(name, a, call) ==
    /\ result' = call.ret
    /\ pred' = Some(call.prediction)
    /\ validator' = call.self
    /\ lastOp' = name
    /\ raised' = ""
    /\ args' = Some(a)
    /\ UNCHANGED <<sky, wave, other, client, digest0, digest, digestOther>>

ValidatePredictionStructure ==
    /\ Running /\ Idle
    /\ pred # None
    /\ Returns("validate_prediction_structure", <<>>,
               validate_prediction_structure(validator, The(pred)))

CheckTimeMatch ==
    /\ Running /\ Idle
    /\ pred # None
    /\ \E event_time \in EventTimes :
         Returns("check_time_match", [event_time |-> event_time],
                 check_time_match(validator, The(pred), event_time))

CheckLocationMatch ==
    /\ Running /\ Idle
    /\ pred # None
    /\ \E event_ra \in LatticeRa, event_dec \in LatticeDec :
         Returns("check_location_match", [event_ra |-> event_ra, event_dec |-> event_dec],
                 check_location_match(validator, The(pred), event_ra, event_dec))

CheckFrequencyMatch ==
    /\ Running /\ Idle
    /\ pred # None
    /\ \E event_frequency \in EventFrequencies :
         Returns("check_frequency_match", [event_frequency |-> event_frequency],
                 check_frequency_match(validator, The(pred), event_frequency))

ValidateAgainstEvent ==
    /\ Running /\ Idle
    /\ pred # None
    /\ \E event_time \in AggregateTimes \cup {TenDaysAfter(The(pred))}, pos \in EventPositions,
          event_frequency \in EventFrequencyArgs :
         Returns("validate_against_event",
                 [event_time |-> event_time, event_ra |-> pos[1], event_dec |-> pos[2],
                  event_frequency |-> event_frequency],
                 validate_against_event(validator, The(pred), event_time,
                                        pos[1], pos[2], event_frequency))

\* prediction.wave_parameters.frequency_hz = value: WaveParameters is a plain
\* (not frozen) dataclass, so the assignment stores a value its __post_init__
\* would have refused.
FrequencyAssignArgs == {0, 100}
SetFrequencyHz ==
    /\ Running /\ Idle
    /\ pred # None
    /\ The(pred).wave_parameters # None
    /\ \E value \in FrequencyAssignArgs :
         pred' = Some([The(pred) EXCEPT !.wave_parameters =
                         Some([The(@) EXCEPT !.frequency_hz = value])])
    /\ lastOp' = "setattr"
    /\ raised' = ""
    /\ args' = None
    /\ result' = NoResult
    /\ UNCHANGED <<sky, wave, other, client, validator, digest0, digest, digestOther>>

\* The consumer makes no lifecycle call on this verdict and takes the next event.
NextEvent ==
    /\ Running
    /\ ~Idle
    /\ result' = NoResult
    /\ lastOp' = "next_event"
    /\ raised' = ""
    /\ args' = None
    /\ UNCHANGED <<sky, wave, pred, other, client, validator, digest0, digest, digestOther>>

NextMatch ==
    \/ NextEvent
    \/ SetFrequencyHz
    \/ ValidatePredictionStructure
    \/ CheckTimeMatch
    \/ CheckLocationMatch
    \/ CheckFrequencyMatch
    \/ ValidateAgainstEvent
    \/ MarkValidated
    \/ MarkInvalidated

SpecMatch == InitMatch /\ [][NextMatch]_vars

(***************************************************************************)
(* The parser (SpecParse): parse_content is called once on a text put      *)
(* together from a phrase naming the kind of event and one of: a           *)
(* confidence, a date, a framework, wave parameters with a sky position;   *)
(* or on a blank text.  Every                                              *)
(* number in the texts is a whole number of the units the records are      *)
(* counted in.                                                             *)
(***************************************************************************)
\* str(n) for a natural number
RECURSIVE str(_)
str(n) ==
    LET digit == <<"0", "1", "2", "3", "4", "5", "6", "7", "8", "9">>[(n % 10) + 1]
    IN  IF n < 10 THEN <<digit>> ELSE str(n \div 10) \o <<digit>>

\* f" Confidence: {c}%"
PercentText(c) == <<" ", "C", "o", "n", "f", "i", "d", "e", "n", "c", "e", ":", " ">> \o str(c) \o <<"%">>
PercentArgs == {0, 50, 75, 85, 100, 101, 150, 200, 10001, 20000}

\* <<text, the confidence it states in percent>> for a confidence written
\* without a percent sign, as test_parse_percentage_confidence_variations
\* pairs them
BareConfidences ==
    <<<<<<" ", "C", "o", "n", "f", "i", "d", "e", "n", "c", "e", ":", " ", "0", ".", "8", "0">>, 80>>,
      <<<<" ", "c", "o", "n", "f", "i", "d", "e", "n", "c", "e", ":", " ", "6", "5">>, 65>>,
      <<<<" ", "C", "o", "n", "f", "i", "d", "e", "n", "c", "e", ":", " ", "0", ".", "5">>, 50>>,
      <<<<" ", "C", "o", "n", "f", "i", "d", "e", "n", "c", "e", ":", " ", "1">>, 100>>,
      <<<<" ", "C", "o", "n", "f", "i", "d", "e", "n", "c", "e", ":", " ", "0">>, 0>>>>

ConfidenceTexts ==
    {<<>>, <<" ", "C", "o", "n", "f", "i", "d", "e", "n", "c", "e", ":", " ", "1", ".", "2", ".", "3">>}
      \cup {PercentText(c) : c \in PercentArgs}
      \cup {BareConfidences[k][1] : k \in 1 .. Len(BareConfidences)}

TypeTexts ==
    {<<"S", "i", "g", "n", "a", "l", " ", "e", "x", "p", "e", "c", "t", "e", "d", " ", "s", "o", "o", "n">>,
     <<"G", "W", " ", "m", "e", "r", "g", "e", "r", " ", "s", "e", "e", "n", " ", "b", "y", " ", "L", "I", "G", "O">>,
     <<"G", "a", "m", "m", "a", " ", "b", "u", "r", "s", "t", " ", "f", "r", "o", "m", " ", "a", " ", "b", "i", "n", "a", "r", "y">>,
     <<"G", "R", "B", " ", "w", "i", "t", "h", " ", "a", " ", "s", "o", "l", "a", "r", " ", "f", "l", "a", "r", "e">>,
     <<"S", "o", "l", "a", "r", " ", "q", "u", "a", "k", "e">>,
     <<"T", "s", "u", "n", "a", "m", "i", " ", "a", "f", "t", "e", "r", " ", "a", "n", " ", "e", "a", "r", "t", "h", "q", "u", "a", "k", "e">>,
     <<"B", "l", "a", "c", "k", " ", "h", "o", "l", "e", " ", "a", "n", "d", " ", "a", " ", "t", "i", "d", "a", "l", " ", "w", "a", "v", "e">>}

WaveTexts ==
    {<<>>,
     <<" ", "F", "r", "e", "q", "u", "e", "n", "c", "y", ":", " ", "1", "5", "0", " ", "H", "z">>,
     <<" ", "A", "m", "p", "l", "i", "t", "u", "d", "e", ":", " ", "2", "e", "-", "2", "1">>,
     <<" ", "f", "r", "e", "q", "u", "e", "n", "c", "y", " ", "2", "5", "0", "h", "z", " ", "a", "m", "p", "l", "i", "t", "u", "d", "e", " ", "3", "E", "-", "2", "1">>,
     <<" ", "F", "r", "e", "q", "u", "e", "n", "c", "y", ":", " ", "0">>,
     <<" ", "A", "m", "p", "l", "i", "t", "u", "d", "e", ":", " ", "1", ".", "2", ".", "3">>,
     <<" ", "F", "r", "e", "q", "u", "e", "n", "c", "y", ":", " ", "1", "5", "0", " ", "s", "n", "r", ":", " ", "1", ".", "2", ".", "3">>}

SkyTexts ==
    {<<>>,
     <<" ", "R", "A", ":", " ", "1", "8", "0">>,
     <<" ", "D", "e", "c", ":", " ", "-", "3", "0">>,
     <<" ", "R", "A", ":", " ", "1", "2", "0", " ", "D", "e", "c", ":", " ", "6", "0">>,
     <<" ", "r", "i", "g", "h", "t", " ", "a", "s", "c", "e", "n", "s", "i", "o", "n", ":", " ", "1", "0", " ", "d", "e", "c", "l", "i", "n", "a", "t", "i", "o", "n", ":", " ", "+", "2", "0">>,
     <<" ", "R", "A", ":", " ", "4", "0", "0", " ", "D", "e", "c", ":", " ", "0">>,
     <<" ", "R", "A", ":", " ", "1", ".", "2", ".", "3", " ", "D", "e", "c", ":", " ", "4">>}

\* <<text, <<year, month, day>> of the date it states>>, in the formats
\* MM/DD/YYYY, MM-DD-YYYY, MM/DD/YY, MM-DD-YY and YYYY-MM-DD
DateCases ==
    <<<<<<" ", "D", "a", "t", "e", ":", " ", "0", "1", "/", "1", "5", "/", "2", "0", "2", "5">>, <<2025, 1, 15>>>>,
      <<<<" ", "D", "a", "t", "e", ":", " ", "0", "1", "-", "1", "5", "-", "2", "0", "2", "5">>, <<2025, 1, 15>>>>,
      <<<<" ", "D", "a", "t", "e", ":", " ", "1", "/", "1", "5", "/", "2", "5">>, <<2025, 1, 15>>>>,
      <<<<" ", "D", "a", "t", "e", ":", " ", "0", "1", "-", "1", "5", "-", "2", "5">>, <<2025, 1, 15>>>>,
      <<<<" ", "D", "a", "t", "e", ":", " ", "2", "0", "2", "5", "-", "0", "1", "-", "1", "5">>, <<2025, 1, 15>>>>,
      <<<<" ", "D", "a", "t", "e", ":", " ", "2", "0", "1", "1", "-", "1", "0", "-", "0", "9">>, <<2011, 10, 9>>>>>>

\* Date tokens that are no calendar date
DateTexts ==
    {DateCases[k][1] : k \in 1 .. Len(DateCases)}
      \cup {<<" ", "D", "a", "t", "e", ":", " ", "1", "3", "/", "1", "5", "/", "2", "0", "2", "5">>,
            <<" ", "D", "a", "t", "e", ":", " ", "0", "2", "/", "3", "0", "/", "2", "0", "2", "5">>}

\* <<text, the framework it names>>
FrameworkCases ==
    <<<<<<" ", "F", "r", "a", "m", "e", "w", "o", "r", "k", ":", " ", "c", "i", "a">>, "CIA">>,
      <<<<" ", "F", "r", "a", "m", "e", "w", "o", "r", "k", ":", " ", "S", "i", "a">>, "SIA">>,
      <<<<" ", "F", "r", "a", "m", "e", "w", "o", "r", "k", ":", " ", "H", "I", "A">>, "HIA">>,
      <<<<" ", "f", "r", "a", "m", "e", "w", "o", "r", "k", ":", " ", "i", "i", "a">>, "IIA">>,
      <<<<" ", "F", "r", "a", "m", "e", "w", "o", "r", "k", ":", " ", "E", "x", "p", "e", "r", "i", "m", "e", "n", "t", "a", "l">>, "Experimental">>,
      <<<<" ", "F", "r", "a", "m", "e", "w", "o", "r", "k", ":", " ", "e", "x", "p", "e", "r", "i", "m", "e", "n", "t", "a", "l">>, "Experimental">>,
      <<<<" ", "F", "r", "a", "m", "e", "w", "o", "r", "k", ":", " ", "E", "X", "P", "E", "R", "I", "M", "E", "N", "T", "A", "L">>, "Experimental">>>>

BlankTexts == {<<>>, <<" ">>, <<" ", "\n", "\t">>}

Contents ==
    BlankTexts
      \cup {t \o c : t \in TypeTexts, c \in ConfidenceTexts}
      \cup {t \o w \o s : t \in TypeTexts, w \in WaveTexts, s \in SkyTexts}
      \cup {t \o d : t \in TypeTexts, d \in DateTexts}
      \cup {t \o FrameworkCases[k][1] : t \in TypeTexts, k \in 1 .. Len(FrameworkCases)}

\* source_file, "unknown" being its default
Sources == {<<"u", "n", "k", "n", "o", "w", "n">>, <<"r", "u", "n", "s", "/", "s", "i", "m", "_", "7", ".", "m", "d">>}

\* datetime.now()
Nows == {0, 3}

\* prediction = PredictionParser().parse_content(content, source_file)
ParseOneOf(contents, sources, nows) ==
    /\ Running /\ lastOp = "start"
    /\ \E content \in contents, source_file \in sources, now \in nows :
         \E tags \in _extract_tags(content) :
            \E call \in {parse_content(content, source_file, now, tags)} :
                /\ pred' = call.value
                /\ raised' = call.raised
                /\ args' = Some([content |-> content, source_file |-> source_file, now |-> now])
    /\ lastOp' = "parse_content"
    /\ UNCHANGED <<sky, wave, other, client, validator, digest0, digest, digestOther, result>>

ParseContent == ParseOneOf(Contents, Sources, Nows)

NextParse == ParseContent

SpecParse == Init /\ [][NextParse]_vars

(***************************************************************************)
(* Structural validation (SpecStructure): validate_prediction_structure is *)
(* called on Predictions that are complete or lack something: the id, the  *)
(* description, a confidence other than 0.5, a window of 1 to 168 hours,   *)
(* wave parameters, a sky location.                                        *)
(***************************************************************************)
StructurePredictions ==
    {p \in {Prediction(id, type, BaseCreated, Hours(0), end, "CIA", confidence,
                        description, s, x, BaseTags) :
               id \in {"", BaseId}, type \in TypeArgs,
               end \in {0, 1, Hours(1), Hours(168), Hours(168) + 1},
               confidence \in {Percent(50), Percent(85)},
               description \in {""} \cup DescriptionArgs,
               s \in {None, Some(SkyLocation(180, 0, 0))},
               x \in {None, Some(WaveParameters(100, 1, None, None, None))}} :
        Prediction_post_init(p) = ""}

InitStructure ==
    /\ sky = None
    /\ client = LIGOClient(TRUE)
    /\ wave = None
    /\ pred \in {Some(p) : p \in StructurePredictions}
    /\ other = None
    /\ validator = DefaultValidator
    /\ lastOp = "start"
    /\ raised = ""
    /\ args = None
    /\ digest0 = None
    /\ digest = None
    /\ digestOther = None
    /\ result = NoResult

NextStructure == ValidatePredictionStructure

SpecStructure == InitStructure /\ [][NextStructure]_vars

(***************************************************************************)
(* Two threads on one Prediction (SpecRace): each thread calls             *)
(* mark_validated or mark_invalidated once on the same object, without a   *)
(* lock, as the methods are written.  A step is one attribute assignment;  *)
(* the assignments of the two calls interleave in any order.               *)
(***************************************************************************)
Threads == {1, 2}

\* The calls a thread can make, each at its first statement
Calls ==
    {[op |-> "mark_validated", event_id |-> Some(e), pc |-> "status"] : e \in EventIds}
      \cup {[op |-> "mark_invalidated", event_id |-> None, pc |-> "status"]}

InitRace ==
    /\ sky = None
    /\ client = LIGOClient(TRUE)
    /\ wave = None
    /\ pred \in {Some(p) : p \in MatchPredictions}
    /\ other = None
    /\ validator = DefaultValidator
    /\ lastOp = "start"
    /\ raised = ""
    /\ args \in {Some(calls) : calls \in [Threads -> Calls]}
    /\ digest0 = None
    /\ digest = None
    /\ digestOther = None
    /\ result = NoResult

\* self.status = PredictionStatus.VALIDATED, or PredictionStatus.INVALIDATED:
\* the first statement of both methods, the last of mark_invalidated
WriteStatus ==
    \E t \in Threads :
       LET call == The(args)[t]
           validated == call.op = "mark_validated"
       IN  /\ call.pc = "status"
           /\ pred' = Some([The(pred) EXCEPT !.status = IF validated THEN "VALIDATED" ELSE "INVALIDATED"])
           /\ args' = Some([The(args) EXCEPT ![t].pc = IF validated THEN "matched_event_id" ELSE "done"])
           /\ lastOp' = call.op
           /\ UNCHANGED <<sky, wave, other, client, validator, raised, digest0, digest, digestOther, result>>

\* self.matched_event_id = event_id: the second statement of mark_validated
WriteMatchedEventId ==
    \E t \in Threads :
       LET call == The(args)[t]
       IN  /\ call.pc = "matched_event_id"
           /\ pred' = Some([The(pred) EXCEPT !.matched_event_id = call.event_id])
           /\ args' = Some([The(args) EXCEPT ![t].pc = "done"])
           /\ lastOp' = call.op
           /\ UNCHANGED <<sky, wave, other, client, validator, raised, digest0, digest, digestOther, result>>

NextRace ==
    \/ WriteStatus
    \/ WriteMatchedEventId

SpecRace == InitRace /\ [][NextRace]_vars

(***************************************************************************)
(* The event source in mock mode (SpecEvents): a caller stores event lists *)
(* with set_mock_events and queries them with get_superevents.  The lists  *)
(* hold up to MaxEvents events at times 0 and 1 in any order, equal times  *)
(* included, or the five events of test_multiple_filters_combined, which   *)
(* lie 5, 3 and 1 days before "now", at "now" and 1 day after it; the      *)
(* bounds are those times and the test's, 4 days before "now" and 12 hours *)
(* after it.                                                               *)
(***************************************************************************)
MaxEvents == 3

CombinedEvents ==
    LET now == Hours(24 * 5)
    IN  << GravitationalWaveEvent("S001", now - Hours(24 * 5)),
           GravitationalWaveEvent("S002", now - Hours(24 * 3)),
           GravitationalWaveEvent("S003", now - Hours(24)),
           GravitationalWaveEvent("S004", now),
           GravitationalWaveEvent("S005", now + Hours(24)) >>

SetMockEvents ==
    /\ Running
    /\ \E n \in 0..MaxEvents, times \in [1..MaxEvents -> 0..1] :
         \E events \in {CombinedEvents,
                        [i \in 1..n |-> GravitationalWaveEvent(CombinedEvents[i].event_id, times[i])]} :
           client' = set_mock_events(client, events)
    /\ lastOp' = "set_mock_events"
    /\ UNCHANGED <<sky, wave, pred, other, validator, raised, args,
                   digest0, digest, digestOther, result>>

GetSuperevents ==
    LET TimeBounds == {None, Some(0), Some(1), Some(Hours(24)), Some(Hours(24 * 5 + 12))}
        Limits == {-1, 0, 1, 2, 100}
    IN  /\ Running
        /\ client.mock_mode
        /\ \E start_time \in TimeBounds, end_time \in TimeBounds, limit \in Limits :
               /\ result' = get_superevents(client, start_time, end_time, limit)
               /\ args' = Some([start_time |-> start_time, end_time |-> end_time,
                                limit |-> limit])
        /\ lastOp' = "get_superevents"
        /\ UNCHANGED <<sky, wave, pred, other, client, validator, raised,
                       digest0, digest, digestOther>>

NextEvents ==
    \/ SetMockEvents
    \/ GetSuperevents

SpecEvents == Init /\ [][NextEvents]_vars

(***************************************************************************)
(* Two Predictions, their digests and their verdicts (SpecVerdict): a       *)
(* consumer that holds two Predictions hashes both and validates both      *)
(* against the same event.  The second Prediction is the first, or differs *)
(* from it in one place: a field, a sub-record, a lifecycle call, or the   *)
(* uncertainty_radius of its SkyLocation.                                  *)
(***************************************************************************)
InitVerdict ==
    /\ sky = None
    /\ client = LIGOClient(TRUE)
    /\ wave = None
    /\ pred \in {Some(p) : p \in HashBases}
    /\ other \in {Some(q) : q \in
                    {The(pred)} \cup Variants(The(pred))
                      \cup {[The(pred) EXCEPT !.sky_location =
                                Some(SkyLocation(The(@).right_ascension,
                                                 The(@).declination, radius))] :
                              radius \in {r \in {0, 30, 45} : The(pred).sky_location # None}}}
    /\ validator = DefaultValidator
    /\ lastOp = "start"
    /\ raised = ""
    /\ args = None
    /\ digest0 = None
    /\ digest = None
    /\ digestOther = None
    /\ result = NoResult

\* result = <<validator.validate_against_event(prediction, event...),
\*            validator.validate_against_event(other, event...)>>
ValidateBothAgainstEvent ==
    /\ Running
    /\ pred # None /\ other # None
    /\ \E event_time \in {Hours(1), TenDaysAfter(The(pred))},
          pos \in {<<None, None>>, <<Some(120), Some(0)>>},
          event_frequency \in {None, Some(100)} :
         LET first == validate_against_event(validator, The(pred), event_time,
                                             pos[1], pos[2], event_frequency)
             second == validate_against_event(first.self, The(other), event_time,
                                              pos[1], pos[2], event_frequency)
         IN  /\ result' = <<first.ret, second.ret>>
             /\ pred' = Some(first.prediction)
             /\ other' = Some(second.prediction)
             /\ validator' = second.self
             /\ args' = Some([event_time |-> event_time, event_ra |-> pos[1],
                              event_dec |-> pos[2], event_frequency |-> event_frequency])
    /\ lastOp' = "validate_against_event"
    /\ raised' = ""
    /\ UNCHANGED <<sky, wave, client, digest0, digest, digestOther>>

NextVerdict ==
    \/ ComputeBothHashes
    \/ ValidateBothAgainstEvent

SpecVerdict == InitVerdict /\ [][NextVerdict]_vars

(***************************************************************************)
(* Scoring events against one Prediction (SpecScore): the consumer's loop  *)
(* "for event in events: validator.validate_against_event(prediction,      *)
(* event_time=event.event_time, ...)" over two events that carry no sky    *)
(* position and no frequency, so that match_score is the time sub-score.   *)
(* args holds the events' times and result the results so far.  The        *)
(* windows are 0, 2, 60, 96 and 98 hours long; the events lie before, on   *)
(* the ends of, inside and after them.                                     *)
(***************************************************************************)
ScoreWindows ==
    {<<Hours(3), Hours(3)>>, <<Hours(2), Hours(4)>>, <<Hours(2), Hours(62)>>,
     <<Hours(2), Hours(98)>>, <<Hours(2), Hours(100)>>}

ScoreTimes ==
    {Hours(2) - 1, Hours(2), Hours(3), Hours(5), Hours(50), Hours(98), Hours(101),
     Hours(150)}

InitScore ==
    /\ sky = None
    /\ client = LIGOClient(TRUE)
    /\ wave = None
    /\ pred \in {Some(Prediction(BaseId, BaseType, BaseCreated, w[1], w[2], "CIA",
                                 Percent(85), BaseDescription, None, None, BaseTags)) :
                   w \in ScoreWindows}
    /\ other = None
    /\ validator \in {DefaultValidator,
                      PredictionValidator(1, DEFAULT_LOCATION_TOLERANCE_DEGREES,
                                          DEFAULT_FREQUENCY_TOLERANCE_PERCENT)}
    /\ lastOp = "start"
    /\ raised = ""
    /\ args \in {Some(events) : events \in [1..2 -> ScoreTimes]}
    /\ digest0 = None
    /\ digest = None
    /\ digestOther = None
    /\ result = <<>>

\* One turn of the loop: the next event is validated and its result kept.
ValidateNextEvent ==
    /\ Running
    /\ pred # None
    /\ Len(result) < Len(The(args))
    /\ LET call == validate_against_event(validator, The(pred),
                                          The(args)[Len(result) + 1], None, None, None)
       IN  /\ result' = Append(result, call.ret)
           /\ pred' = Some(call.prediction)
           /\ validator' = call.self
    /\ lastOp' = "validate_against_event"
    /\ raised' = ""
    /\ UNCHANGED <<sky, wave, other, client, args, digest0, digest, digestOther>>

NextScore == ValidateNextEvent

SpecScore == InitScore /\ [][NextScore]_vars

(***************************************************************************)
(* A parsed Prediction's life (SpecLifecycle): parse_content makes the     *)
(* Prediction from a blank text, a text without sub-records, a text with   *)
(* wave parameters and a sky position, or a text with a date; it is then   *)
(* hashed, validated structurally, matched against events, and marked      *)
(* validated or invalidated, in any order and any number of times.         *)
(***************************************************************************)
ParseForecast ==
    ParseOneOf({<<" ">>,
                <<"S", "o", "l", "a", "r", " ", "q", "u", "a", "k", "e">>,
                <<"G", "W", " ", "m", "e", "r", "g", "e", "r", " ", "s", "e", "e", "n", " ", "b", "y", " ", "L", "I", "G", "O", " ", "F", "r", "e", "q", "u", "e", "n", "c", "y", ":", " ", "1", "5", "0", " ", "H", "z", " ", "R", "A", ":", " ", "1", "2", "0", " ", "D", "e", "c", ":", " ", "6", "0">>,
                <<"G", "W", " ", "m", "e", "r", "g", "e", "r", " ", "s", "e", "e", "n", " ", "b", "y", " ", "L", "I", "G", "O", " ", "D", "a", "t", "e", ":", " ", "0", "1", "/", "1", "5", "/", "2", "0", "2", "5">>},
               {<<"u", "n", "k", "n", "o", "w", "n">>}, {0})

NextLifecycle ==
    \/ ParseForecast
    \/ ComputePredictionHash
    \/ ValidatePredictionStructure
    \/ ValidateAgainstEvent
    \/ NextEvent
    \/ MarkValidated
    \/ MarkInvalidated

SpecLifecycle == Init /\ [][NextLifecycle]_vars

(***************************************************************************)
(* Properties of the record model, the lifecycle and the digest (Spec).    *)
(***************************************************************************)
Live == pred # None
status == The(pred).status
matched_event_id == The(pred).matched_event_id
LifecycleOps == {"mark_validated", "mark_invalidated"}

\* C1: whatever mark_validated / mark_invalidated calls a Prediction receives
\* between two compute_prediction_hash calls, the later call returns the
\* digest the first one returned.
C1_HashUnchangedByLifecycle ==
    digest # None => digest = digest0

\* The first digest was taken of the pending Prediction, the last one after a
\* mark_validated and then a mark_invalidated.
C1_Witness ==
    /\ Live
    /\ lastOp = "compute_prediction_hash"
    /\ status = "INVALIDATED"
    /\ matched_event_id # None
    /\ digest0 = Some(compute_prediction_hash(
                       [The(pred) EXCEPT !.status = "PENDING",
                                               !.matched_event_id = None]))
    /\ digest = digest0

\* C3: the invariants of a Prediction hold in every state it goes through, not
\* only when it is constructed.
C3_InvariantsHoldAfterMutation ==
    Live =>
      /\ 0 <= The(pred).confidence /\ The(pred).confidence <= Percent(100)
      /\ The(pred).predicted_event_end >= The(pred).predicted_event_start
      /\ The(pred).framework \in {"CIA", "SIA", "HIA", "IIA", "Experimental"}

\* C4, as stated: once the status has left pending no lifecycle call changes it.
C4_StatusCommittedOnce ==
    [][(Live /\ status # "PENDING") => status' = status]_vars

\* C4, amended: every lifecycle call sets the status to its own target, so the
\* status is never pending (or expired) again once a call was made, but a later
\* call of the other kind overwrites it; no other operation changes the status.
C4_StatusLeavesPendingForGood ==
    [][Live =>
         /\ lastOp' = "mark_validated" => status' = "VALIDATED"
         /\ lastOp' = "mark_invalidated" => status' = "INVALIDATED"
         /\ lastOp' \notin LifecycleOps => status' = status
         /\ status # "PENDING" => status' \in {"VALIDATED", "INVALIDATED"}]_vars

\* A second lifecycle call was made and overwrote the first one's status.
C4_Witness ==
    /\ Live
    /\ lastOp = "mark_invalidated"
    /\ status = "INVALIDATED"
    /\ matched_event_id # None

\* C5: a Prediction carries a matched event exactly when it is validated.
C5_MatchedEventIffValidated ==
    Live => (matched_event_id # None <=> status = "VALIDATED")

\* C7: a constructor returns an object exactly when its arguments are inside
\* the declared bounds (the bounds themselves included), the object holds the
\* arguments as passed, and a call that raises produces no object.
C7_ConstructionAcceptsExactlyTheBounds ==
    /\ lastOp = "SkyLocation" =>
         LET a  == The(args)
             ok == /\ 0 <= a.right_ascension /\ a.right_ascension <= 360
                   /\ -90 <= a.declination /\ a.declination <= 90
                   /\ a.uncertainty_radius >= 0
         IN  /\ raised = "" <=> ok
             /\ ok => sky = Some(a)
             /\ ~ok => sky # Some(a)
    /\ lastOp = "WaveParameters" =>
         LET a  == The(args)
             ok == a.frequency_hz > 0 /\ a.amplitude > 0
         IN  /\ raised = "" <=> ok
             /\ ok => wave = Some(a)
             /\ ~ok => wave # Some(a)
    /\ lastOp = "Prediction" =>
         LET a  == The(args)
             ok == /\ 0 <= a.confidence /\ a.confidence <= Percent(100)
                   /\ a.predicted_event_end >= a.predicted_event_start
                   /\ a.framework \in {"CIA", "SIA", "HIA", "IIA", "Experimental"}
         IN  /\ raised = "" <=> ok
             /\ ok => pred = Some(a)
             /\ ~ok => pred = None

\* A Prediction was built on the bounds: confidence 1 and a window of length 0,
\* around a SkyLocation on the bounds.
C7_Witness ==
    /\ lastOp = "Prediction"
    /\ raised = ""
    /\ Live
    /\ The(pred).confidence = Percent(100)
    /\ The(pred).predicted_event_end = The(pred).predicted_event_start
    /\ sky # None
    /\ The(sky).right_ascension = 360
    /\ The(sky).declination = -90
    /\ The(pred).sky_location = sky

(***************************************************************************)
(* Properties of the digest of two Predictions (SpecHash).                 *)
(***************************************************************************)
\* The fields C2 lists: the plain ones, and of each sub-record its presence
\* and its two hashed coordinates.
AgreeOnHashedFields(p, q) ==
    /\ p.id = q.id
    /\ p.prediction_type = q.prediction_type
    /\ p.created_at = q.created_at
    /\ p.predicted_event_start = q.predicted_event_start
    /\ p.predicted_event_end = q.predicted_event_end
    /\ p.framework = q.framework
    /\ p.confidence = q.confidence
    /\ p.description = q.description
    /\ (p.sky_location = None) <=> (q.sky_location = None)
    /\ (p.sky_location # None /\ q.sky_location # None) =>
         /\ The(p.sky_location).right_ascension = The(q.sky_location).right_ascension
         /\ The(p.sky_location).declination = The(q.sky_location).declination
    /\ (p.wave_parameters = None) <=> (q.wave_parameters = None)
    /\ (p.wave_parameters # None /\ q.wave_parameters # None) =>
         /\ The(p.wave_parameters).frequency_hz = The(q.wave_parameters).frequency_hz
         /\ The(p.wave_parameters).amplitude = The(q.wave_parameters).amplitude

\* C2: two Predictions have the same digest exactly when they agree on the
\* hashed fields; so a difference in a hashed field changes the digest and a
\* difference in any other field (uncertainty radius, chirp mass, distance,
\* SNR, tags, status, matched event) does not.
C2_DigestEqualIffHashedFieldsAgree ==
    (digest # None /\ digestOther # None) =>
        (digest = digestOther <=> AgreeOnHashedFields(The(pred), The(other)))

\* Two Predictions that differ in uncertainty radius and in status but in no
\* hashed field were hashed, to the same digest.
C2_Witness ==
    /\ digest # None
    /\ digest = digestOther
    /\ lastOp = "compute_prediction_hash"
    /\ The(pred).sky_location # None
    /\ The(other).sky_location # None
    /\ The(The(pred).sky_location).uncertainty_radius
         # The(The(other).sky_location).uncertainty_radius
    /\ The(pred).status # The(other).status

(***************************************************************************)
(* Properties of the validator (SpecMatch).                                *)
(***************************************************************************)
ValidatorOps ==
    {"validate_prediction_structure", "check_time_match", "check_location_match",
     "check_frequency_match", "validate_against_event"}
predicted_event_start == The(pred).predicted_event_start
predicted_event_end == The(pred).predicted_event_end

\* C6: no validator method changes a field of the Prediction it is given or a
\* tolerance of the validator; the status of a Prediction changes only in a
\* mark_validated or mark_invalidated call.
C6_ValidatorLeavesInputsUnchanged ==
    [][/\ validator' = validator
       /\ lastOp' \in ValidatorOps => pred' = pred
       /\ (Live /\ status' # status) => lastOp' \in LifecycleOps]_vars

\* validate_against_event has reported a match for a Prediction, which is
\* still pending and carries no matched event.
C6_Witness ==
    /\ Live
    /\ lastOp = "validate_against_event"
    /\ result.overall_match
    /\ status = "PENDING"
    /\ matched_event_id = None

\* C8: for an event time inside the window, ends included, check_time_match
\* returns a match whatever the tolerance, and the distance is the one between
\* the event time and the middle of the window; at either end of the window it
\* is half the window's length.
C8_InsideWindowMatchesAtMidpointDistance ==
    (Live /\ lastOp = "check_time_match") =>
      LET t == The(args).event_time
      IN  (predicted_event_start <= t /\ t <= predicted_event_end) =>
            /\ result.match
            /\ 2 * result.distance = Abs(2 * t - (predicted_event_start + predicted_event_end))
            /\ t \in {predicted_event_start, predicted_event_end} =>
                 2 * result.distance = predicted_event_end - predicted_event_start

\* The event is at the end of a three-hour window, further from its start than
\* the validator's tolerance of one hour: a match, at 1.5 hours.
C8_Witness ==
    /\ Live
    /\ lastOp = "check_time_match"
    /\ The(args).event_time = predicted_event_end
    /\ predicted_event_end - predicted_event_start = Hours(3)
    /\ validator.time_tolerance = Hours(1)
    /\ result.match
    /\ result.distance = 3

\* C9: for an event time before or after the window, check_time_match reports
\* the distance to the nearer end of the window, and a match exactly when that
\* distance is at most the time tolerance, which is 24 hours by default.
C9_OutsideWindowMatchesWithinTolerance ==
    (Live /\ lastOp = "check_time_match") =>
      LET t == The(args).event_time
          nearest == Min(Abs(t - predicted_event_start), Abs(t - predicted_event_end))
      IN  (t < predicted_event_start \/ t > predicted_event_end) =>
            /\ result.distance = nearest
            /\ result.match <=> nearest <= validator.time_tolerance
            /\ validator = DefaultValidator => (result.match <=> nearest <= Hours(24))

\* The event is exactly 24 hours after the window's end and the validator has
\* the default tolerance: a match, at 24 hours.
C9_Witness ==
    /\ Live
    /\ lastOp = "check_time_match"
    /\ validator = DefaultValidator
    /\ The(args).event_time = predicted_event_end + Hours(24)
    /\ result.match
    /\ result.distance = Hours(24)

\* C10: without a sky location check_location_match returns (True, 0); with
\* one it returns a match exactly when the angular separation of the two
\* positions is at most the validator's location tolerance plus the
\* Prediction's uncertainty radius, a separation of exactly that sum included;
\* at the Prediction's own position the separation is 0.
C10_SkyMatchIffWithinSummedTolerance ==
    (Live /\ lastOp = "check_location_match") =>
      IF The(pred).sky_location = None
        THEN result.match /\ result.distance = Separation(0, 0)
      ELSE
        LET loc == The(The(pred).sky_location)
            a == The(args)
            angular == AsinSqrtDeg(Haversine16(loc.right_ascension, loc.declination,
                                               a.event_ra, a.event_dec))
            total == validator.location_tolerance + loc.uncertainty_radius
        IN  /\ result.match <=> angular <= 1000 * total
            /\ (a.event_ra = loc.right_ascension /\ a.event_dec = loc.declination)
                 => result.distance = Separation(0, 0)

\* C11: without wave parameters check_frequency_match returns (True, 0); with a
\* predicted frequency p > 0 it returns a match exactly when |f - p| / p is at
\* most the tolerance percent / 100, a difference of exactly the tolerance
\* included, and reports 100 * |f - p| / p.
C11_FrequencyMatchWithinPercent ==
    (Live /\ lastOp = "check_frequency_match") =>
      IF The(pred).wave_parameters = None
        THEN result.match /\ result.distance = Rat(0, 1)
      ELSE
        LET p == The(The(pred).wave_parameters).frequency_hz
            f == The(args).event_frequency
        IN  p > 0 =>
              /\ result.match <=> 100 * Abs(f - p) <= validator.frequency_tolerance * p
              /\ result.distance.den > 0
              /\ result.distance.num * p = 100 * Abs(f - p) * result.distance.den

\* An observed 110 Hz against a predicted 100 Hz under a tolerance of 10 percent:
\* a match, at 10 percent.
C11_Witness ==
    /\ Live
    /\ lastOp = "check_frequency_match"
    /\ The(pred).wave_parameters # None
    /\ The(The(pred).wave_parameters).frequency_hz = 100
    /\ The(args).event_frequency = 110
    /\ validator.frequency_tolerance = 10
    /\ result.match
    /\ result.distance = Rat(1000, 100)

\* The values validate_against_event is checked against: the fractions x and y
\* are equal; the sub-score of each axis, from the difference the result
\* reports for it; the number of axes in the result.
Reduced(x) == Rat(x.num \div Gcd(x.num, x.den), x.den \div Gcd(x.num, x.den))
RatEq(x, y) == Reduced(x) = Reduced(y)
TimeScoreOf(r) ==
    IF r.checks.time.distance >= Hours(48) THEN Rat(0, 1)
    ELSE Rat(Hours(48) - r.checks.time.distance, Hours(48))
LocationScoreOf(r) ==
    LET milli == The(r.checks.location).distance.milli
    IN  IF milli >= 90000 THEN Rat(0, 1) ELSE Rat(90000 - milli, 90000)
FrequencyScoreOf(r) ==
    LET diff == The(r.checks.frequency).distance
    IN  IF diff.den = 0 \/ diff.num >= 100 * diff.den THEN Rat(0, 1)
        ELSE Rat(100 * diff.den - diff.num, 100 * diff.den)
AxesOf(r) ==
    1 + (IF r.checks.location # None THEN 1 ELSE 0)
      + (IF r.checks.frequency # None THEN 1 ELSE 0)
HasZeroFrequency ==
    /\ Live
    /\ The(pred).wave_parameters # None
    /\ The(The(pred).wave_parameters).frequency_hz = 0

\* C12: with a predicted frequency of exactly 0, check_frequency_match returns
\* no match and an infinite distance for every observed frequency, without
\* raising; validate_against_event given a frequency then reports no overall
\* match, and the frequency axis adds 0 to the score.
C12_ZeroFrequencyNeverMatches ==
    /\ (HasZeroFrequency /\ lastOp = "check_frequency_match") =>
         /\ raised = ""
         /\ ~result.match
         /\ result.distance = Infinity
    /\ (HasZeroFrequency /\ lastOp = "validate_against_event"
          /\ The(args).event_frequency # None) =>
         /\ raised = ""
         /\ ~result.overall_match
         /\ result.checks.frequency = Some(FrequencyResult(FALSE, Infinity))
         /\ RatEq(Rat(result.match_score.num * AxesOf(result), result.match_score.den),
                  IF result.checks.location # None
                    THEN RatAdd(TimeScoreOf(result), LocationScoreOf(result))
                    ELSE TimeScoreOf(result))

\* validate_against_event was given a frequency for a Prediction whose
\* frequency is 0: the time and the position match, the result does not.
C12_Witness ==
    /\ HasZeroFrequency
    /\ lastOp = "validate_against_event"
    /\ The(args).event_frequency # None
    /\ result.checks.time.match
    /\ result.checks.location # None
    /\ The(result.checks.location).match
    /\ result.checks.frequency = Some(FrequencyResult(FALSE, Infinity))
    /\ ~result.overall_match

\* C13: validate_against_event always evaluates the time axis, the location
\* axis exactly when both event_ra and event_dec are given (a value of 0 is
\* given), the frequency axis exactly when event_frequency is given; the
\* overall match is the conjunction of the evaluated axes' matches, so an event
\* ten days after the window under the default tolerances is no overall match.
C13_OverallMatchIsConjunctionOfEvaluatedAxes ==
    (Live /\ lastOp = "validate_against_event") =>
      LET a == The(args)
          c == result.checks
      IN  /\ c.time.op = "check_time_match"
          /\ c.location # None <=> (a.event_ra # None /\ a.event_dec # None)
          /\ c.frequency # None <=> a.event_frequency # None
          /\ result.overall_match <=>
               /\ c.time.match
               /\ c.location # None => The(c.location).match
               /\ c.frequency # None => The(c.frequency).match
          /\ (validator = DefaultValidator /\ a.event_time = TenDaysAfter(The(pred))) =>
               ~c.time.match /\ ~result.overall_match

\* An event ten days after the window, at the predicted position and
\* frequency: the location and the frequency match, the time and the result
\* do not.
C13_Witness ==
    /\ Live
    /\ lastOp = "validate_against_event"
    /\ validator = DefaultValidator
    /\ The(args).event_time = TenDaysAfter(The(pred))
    /\ result.checks.location # None
    /\ The(result.checks.location).match
    /\ result.checks.frequency # None
    /\ The(result.checks.frequency).match
    /\ ~result.checks.time.match
    /\ ~result.overall_match

\* C14: the match_score of validate_against_event is the mean, over the axes
\* the result holds, of max(0, 1 - hours / 48), max(0, 1 - degrees / 90) and
\* max(0, 1 - percent / 100); it lies in [0, 1]; the time axis is always among
\* the axes, so the mean is never over no axis.
C14_MatchScoreIsMeanOfEvaluatedAxes ==
    (Live /\ lastOp = "validate_against_event") =>
      LET score == result.match_score
          sum1 == TimeScoreOf(result)
          sum2 == IF result.checks.location # None
                    THEN RatAdd(sum1, LocationScoreOf(result)) ELSE sum1
          sum3 == IF result.checks.frequency # None
                    THEN RatAdd(sum2, FrequencyScoreOf(result)) ELSE sum2
      IN  /\ result.checks.time.op = "check_time_match"
          /\ AxesOf(result) >= 1
          /\ score.den > 0
          /\ 0 <= score.num /\ score.num <= score.den
          /\ RatEq(Rat(score.num * AxesOf(result), score.den), sum3)

\* The mean over two axes: the event is at the window's end, one hour from the
\* middle of a two-hour window (47/48), and 60 degrees from the predicted
\* position (1/3); no frequency is given.
C14_Witness ==
    /\ Live
    /\ lastOp = "validate_against_event"
    /\ result.checks.time.distance = Hours(1)
    /\ result.checks.location # None
    /\ The(result.checks.location).distance.milli = 60000
    /\ result.checks.frequency = None
    /\ RatEq(result.match_score, Rat(47 * 3 + 48, 2 * 48 * 3))

(***************************************************************************)
(* Properties of the parser (SpecParse).                                   *)
(***************************************************************************)
Parsed == lastOp = "parse_content"
content == The(args).content
IsBlank(text) == \A i \in 1 .. Len(text) : text[i] \in Whitespace

\* C15: parse_content on an empty or whitespace-only text raises ParseError
\* and returns no Prediction, whatever the source label.
C15_BlankInputRaisesParseError ==
    Parsed /\ IsBlank(content) => raised = "ParseError" /\ pred = None

C15_Witness ==
    /\ Parsed /\ content = <<" ", "\n", "\t">> /\ The(args).source_file # <<"u", "n", "k", "n", "o", "w", "n">>
    /\ raised = "ParseError" /\ pred = None

\* The text parsed is a phrase naming the kind of event followed by `text`.
Stating(text) == Parsed /\ \E t \in TypeTexts : content = t \o text

\* C16: a text stating "Confidence: c%" yields a Prediction whose confidence
\* is c / 100 clamped to [0, 1]; "Confidence: 150%" is stored as 1.0.
C16_PercentConfidenceIsClamped ==
    \A c \in PercentArgs :
       Stating(PercentText(c)) /\ raised = ""
         => The(pred).confidence = Min(Max(Percent(c), 0), Percent(100))

\* C17: a confidence written without a percent sign as a fraction x of [0, 1]
\* is stored as x, and a bare number above 1 as that many percent, within
\* 0.01 as the test asks.
C17_BareConfidenceIsFractionOrPercent ==
    \A k \in 1 .. Len(BareConfidences) :
       Stating(BareConfidences[k][1]) /\ raised = ""
         => Abs(The(pred).confidence - Percent(BareConfidences[k][2])) <= Percent(1)

\* The k-th prediction type of TYPE_KEYWORDS has a keyword in the text parsed,
\* in any letter case.
KeywordHit(k) ==
    \E j \in 1 .. Len(TYPE_KEYWORDS[k][2]) : contains(lower(content), TYPE_KEYWORDS[k][2][j])

\* C18: the prediction type is the first of GRAVITATIONAL_WAVE, GAMMA_RAY,
\* SOLAR_FLARE, TECTONIC, BLACK_HOLE, TSUNAMI with a keyword in the text,
\* whatever later types have keywords there too, and GRAVITATIONAL_WAVE when
\* no type has one.
C18_TypeIsFirstWithKeyword ==
    Parsed /\ raised = "" =>
      LET type == The(pred).prediction_type
          order == <<"GRAVITATIONAL_WAVE", "GAMMA_RAY", "SOLAR_FLARE", "TECTONIC", "BLACK_HOLE", "TSUNAMI">>
      IN  /\ \A k \in 1 .. 6 : KeywordHit(k) /\ (\A j \in 1 .. k - 1 : ~KeywordHit(j)) => type = order[k]
          /\ (\A k \in 1 .. 6 : ~KeywordHit(k)) => type = "GRAVITATIONAL_WAVE"

\* "Black hole and a tidal wave" has keywords of BLACK_HOLE and of TSUNAMI.
C18_Witness ==
    /\ Parsed /\ raised = ""
    /\ KeywordHit(5) /\ KeywordHit(6) /\ \A k \in 1 .. 4 : ~KeywordHit(k)
    /\ The(pred).prediction_type = "BLACK_HOLE"

\* The text a pattern of PATTERNS captures in the text parsed, or None.
Found(pattern) == search(pattern, content)

\* C19: a Prediction returned has WaveParameters only if its type is
\* GRAVITATIONAL_WAVE and the frequency or the amplitude pattern was found;
\* the one of the two that was not found is 100 Hz, or 1e-21.
C19_WaveParametersOnlyForWavesWithDefaults ==
    Parsed /\ raised = "" /\ The(pred).wave_parameters # None =>
      LET wave_params == The(The(pred).wave_parameters)
      IN  /\ The(pred).prediction_type = "GRAVITATIONAL_WAVE"
          /\ Found(PATTERNS.frequency) # None \/ Found(PATTERNS.amplitude) # None
          /\ Found(PATTERNS.frequency) = None => wave_params.frequency_hz = 100
          /\ Found(PATTERNS.amplitude) = None => wave_params.amplitude = 1

\* "... Frequency: 150 Hz" without an amplitude
C19_Witness ==
    /\ Parsed /\ raised = ""
    /\ Found(PATTERNS.frequency) = Some(<<"1", "5", "0">>) /\ Found(PATTERNS.amplitude) = None
    /\ The(pred).wave_parameters = Some(WaveParameters(150, 1, None, None, None))

\* C20: a Prediction returned has a SkyLocation only if the right ascension
\* and the declination pattern were both found and both captured texts are
\* numbers, and then it holds these two numbers and an uncertainty radius 0.
C20_SkyLocationNeedsBothCoordinates ==
    Parsed /\ raised = "" /\ The(pred).sky_location # None =>
      LET ra == Found(PATTERNS.right_ascension)
          dec == Found(PATTERNS.declination)
      IN  /\ ra # None /\ dec # None
          /\ float(The(ra)) # None /\ float(The(dec)) # None
          /\ The(The(pred).sky_location) =
               [right_ascension    |-> InUnits(The(float(The(ra))), 0),
                declination        |-> InUnits(The(float(The(dec))), 0),
                uncertainty_radius |-> 0]

\* "... right ascension: 10 declination: +20"
C20_Witness ==
    /\ Parsed /\ raised = ""
    /\ Found(PATTERNS.right_ascension) = Some(<<"1", "0">>)
    /\ Found(PATTERNS.declination) = Some(<<"+", "2", "0">>)
    /\ The(pred).sky_location = Some(SkyLocation(10, 20, 0))

\* The number a pattern of PATTERNS captures in the text parsed, in units of
\* 10 ** e; None when the pattern is not found or float refuses the text.
Number(pattern, e) == IF Found(pattern) = None THEN None ELSE FloatIn(The(Found(pattern)), e)

\* C21: a text whose coordinates are both given with a right ascension
\* outside [0, 360] or a declination outside [-90, 90], or a
\* GRAVITATIONAL_WAVE text with a frequency or an amplitude that is not
\* positive, makes parse_content raise; no Prediction is returned with the
\* field dropped.
C21_SubRecordViolationsPropagate ==
    LET ra == Number(PATTERNS.right_ascension, 0)
        dec == Number(PATTERNS.declination, 0)
        frequency == Number(PATTERNS.frequency, 0)
        amplitude == Number(PATTERNS.amplitude, -21)
        waves == _infer_prediction_type(content) = "GRAVITATIONAL_WAVE"
    IN  Parsed /\ ~IsBlank(content) =>
          /\ ra # None /\ dec # None /\ (The(ra) \notin 0 .. 360 \/ The(dec) \notin -90 .. 90)
                => raised # ""
          /\ waves /\ frequency # None /\ The(frequency) <= 0 => raised # ""
          /\ waves /\ amplitude # None /\ The(amplitude) <= 0 => raised # ""

\* C22: when the confidence, frequency, amplitude, chirp mass, distance, SNR,
\* right ascension or declination pattern matches a text that is not a
\* number, parse_content still returns a Prediction.
C22_MalformedNumberNeverAborts ==
    LET numeric == {PATTERNS.confidence, PATTERNS.frequency, PATTERNS.amplitude,
                    PATTERNS.chirp_mass, PATTERNS.distance, PATTERNS.snr,
                    PATTERNS.right_ascension, PATTERNS.declination}
    IN  Parsed /\ ~IsBlank(content)
          /\ (\E pattern \in numeric :
                Found(pattern) # None /\ float(The(Found(pattern))) = None)
          => raised = "" /\ pred # None

\* C23: when the first date token is written MM/DD/YYYY, MM-DD-YYYY,
\* MM/DD/YY, MM-DD-YY or YYYY-MM-DD, the window starts at midnight of that
\* date; without a date token it starts at the current time; the window
\* ends 24 hours after its start.
C23_WindowStartsAtStatedDate ==
    Parsed /\ raised = "" =>
      /\ The(pred).predicted_event_end = The(pred).predicted_event_start + Hours(24)
      /\ first_date(content) = None => The(pred).predicted_event_start = The(args).now
      /\ \A k \in 1 .. Len(DateCases) :
            Stating(DateCases[k][1]) =>
              The(pred).predicted_event_start
                = The(datetime(DateCases[k][2][1], DateCases[k][2][2], DateCases[k][2][3]))

\* C27: a framework label written in any letter case yields a Prediction
\* with the corresponding member of valid_frameworks, a text without a
\* framework label one with "Experimental"; parse_content does not fail on
\* the framework.
C27_FrameworkLandsInValidFrameworks ==
    Parsed /\ ~IsBlank(content) =>
      /\ raised = "" => The(pred).framework \in valid_frameworks
      /\ raised = "" /\ search_framework(content) = None => The(pred).framework = "Experimental"
      /\ \A k \in 1 .. Len(FrameworkCases) :
            Stating(FrameworkCases[k][1]) =>
              raised = "" /\ The(pred).framework = FrameworkCases[k][2]

(***************************************************************************)
(* Properties of structural validation (SpecStructure).                    *)
(***************************************************************************)
\* validate_prediction_structure returned a list with the warning w
Warned(w) ==
    /\ lastOp = "validate_prediction_structure"
    /\ \E i \in 1 .. Len(result.warnings) : result.warnings[i] = w

\* C25: validate_prediction_structure does not raise; it gives one warning
\* for each of: an empty id, an empty or placeholder description, the
\* confidence 0.5, a window above 168 hours, a window below 1 hour, and for a
\* GRAVITATIONAL_WAVE Prediction missing wave parameters and a missing sky
\* location; it gives no other warning, so the list is empty iff none of
\* these holds.
C25_StructureWarningsAreExactlyTheViolations ==
    lastOp = "validate_prediction_structure" =>
      LET p == The(pred)
          hours == p.predicted_event_end - p.predicted_event_start
          waves == p.prediction_type = "GRAVITATIONAL_WAVE"
          due == <<p.id = "",
                   p.description \in {"", "No description available"},
                   p.confidence = Percent(50),
                   hours > Hours(168),
                   hours < Hours(1),
                   waves /\ p.wave_parameters = None,
                   waves /\ p.sky_location = None>>
          texts == <<"Missing prediction ID",
                     "Missing or default description",
                     "Default confidence value (0.5) - may not be explicitly set",
                     "Very wide prediction window",
                     "Very narrow prediction window",
                     "Gravitational wave prediction missing wave parameters",
                     "Gravitational wave prediction missing sky location">>
      IN  /\ raised = ""
          /\ \A k \in 1 .. 7 : Warned(texts[k]) <=> due[k]
          /\ Len(result.warnings) = Cardinality({k \in 1 .. 7 : due[k]})
          /\ result.warnings = <<>> <=> \A k \in 1 .. 7 : ~due[k]

\* A SOLAR_FLARE Prediction without wave parameters and sky location, with a
\* window of 168 hours, gets no warning.
C25_Witness ==
    /\ lastOp = "validate_prediction_structure" /\ result.warnings = <<>>
    /\ The(pred).prediction_type = "SOLAR_FLARE"
    /\ The(pred).wave_parameters = None /\ The(pred).sky_location = None
    /\ The(pred).predicted_event_end - The(pred).predicted_event_start = Hours(168)

(***************************************************************************)
(* Properties of two threads on one Prediction (SpecRace).                 *)
(***************************************************************************)
\* <<status, matched_event_id>> after the whole calls of thread t, then of
\* thread u, on the Prediction as constructed
InOrder(t, u) ==
    LET Whole(self, call) == IF call.op = "mark_validated"
                               THEN mark_validated(self, The(call.event_id))
                               ELSE mark_invalidated(self)
        start == [The(pred) EXCEPT !.status = "PENDING", !.matched_event_id = None]
        end == Whole(Whole(start, The(args)[t]), The(args)[u])
    IN  <<end.status, end.matched_event_id>>

\* When both calls have returned, the Prediction is as one order of the two
\* whole calls leaves it.
FinalPairIsSequential ==
    (\A t \in Threads : The(args)[t].pc = "done")
      => <<status, matched_event_id>> \in {InOrder(1, 2), InOrder(2, 1)}

\* C24: two threads calling mark_validated / mark_invalidated on one
\* Prediction are serialized: status VALIDATED is never seen without a
\* matched_event_id, and the final status and matched_event_id are those of
\* one order of the two calls.
C24_RacingTransitionsAreSerialized ==
    /\ status = "VALIDATED" => matched_event_id # None
    /\ FinalPairIsSequential

(***************************************************************************)
(* Properties of the event source in mock mode (SpecEvents).               *)
(***************************************************************************)
InBounds(e, start_time, end_time) ==
    /\ start_time # None => The(start_time) <= e.event_time
    /\ end_time # None => e.event_time <= The(end_time)

\* C26: in mock mode get_superevents returns the first n events (n >= 0),
\* in stored order, of the stored events whose time lies within the given
\* bounds, each bound inclusive and applied only when given; the filtering
\* comes before the truncation, and the stored list is left as it was.
C26_FilteredThenTruncated ==
    [][lastOp' = "get_superevents" /\ The(args').limit >= 0 =>
         LET call == The(args')
             kept == SelectSeq(client._mock_events,
                               LAMBDA e : InBounds(e, call.start_time, call.end_time))
         IN  /\ Len(result') = Min(call.limit, Len(kept))
             /\ \A i \in 1..Len(result') : result'[i] = kept[i]
             /\ client'._mock_events = client._mock_events]_vars

\* The call of test_multiple_filters_combined: of the three events within
\* the bounds, the first two are returned.
C26_Witness ==
    /\ lastOp = "get_superevents"
    /\ client._mock_events = CombinedEvents
    /\ The(args) = [start_time |-> Some(Hours(24)),
                    end_time |-> Some(Hours(24 * 5 + 12)), limit |-> 2]
    /\ result = <<CombinedEvents[2], CombinedEvents[3]>>

(***************************************************************************)
(* Properties of two Predictions, their digests and verdicts (SpecVerdict).*)
(***************************************************************************)
\* C28: two Predictions with the same compute_prediction_hash get the same
\* overall_match from validate_against_event, whatever the event: no field
\* the verdict depends on can change without the digest changing.
C28_DigestEqualityImpliesVerdictEquality ==
    /\ lastOp = "validate_against_event"
    /\ digest # None /\ digest = digestOther
    => result[1].overall_match = result[2].overall_match

(***************************************************************************)
(* Properties of scoring events against one Prediction (SpecScore).        *)
(***************************************************************************)
Scored == Len(result) = 2
Inside(i) == is_within_window(The(pred), The(args)[i])
ScoreAtLeast(i, j) ==
    result[i].match_score.num * result[j].match_score.den
      >= result[j].match_score.num * result[i].match_score.den

\* C29 as stated: every event inside the window gets a time sub-score at
\* least as high as every event outside it, and every time-matching event
\* inside the window gets a strictly positive time sub-score.
C29_InsideScoresAtLeastOutside ==
    Scored =>
      \A i, j \in 1..2 :
        /\ Inside(i) /\ ~Inside(j) => ScoreAtLeast(i, j)
        /\ Inside(i) /\ result[i].checks.time.match => result[i].match_score.num > 0

\* C29 as amended: an event inside the window gets a time sub-score at least
\* as high as every event outside the window that is at least half the
\* window's length from its nearest end, and a strictly positive one when the
\* window is shorter than 96 hours.
C29_InsideScoresAtLeastFarOutside ==
    Scored =>
      \A i, j \in 1..2 :
        /\ /\ Inside(i) /\ ~Inside(j)
           /\ 2 * Min(Abs(The(args)[j] - The(pred).predicted_event_start),
                      Abs(The(args)[j] - The(pred).predicted_event_end))
                >= time_window_hours(The(pred))
           => ScoreAtLeast(i, j)
        /\ Inside(i) /\ time_window_hours(The(pred)) < Hours(96)
           => result[i].match_score.num > 0

\* The window from 02:00 to 04:00, an event on its start and one an hour
\* after its end: both are one hour off and score 47/48.
C29_Witness ==
    /\ Scored
    /\ The(pred).predicted_event_start = Hours(2) /\ The(pred).predicted_event_end = Hours(4)
    /\ The(args) = <<Hours(2), Hours(5)>>
    /\ Inside(1) /\ ~Inside(2)
    /\ result[1].match_score.num * 48 = result[1].match_score.den * 47
    /\ result[2].match_score.num * 48 = result[2].match_score.den * 47

(***************************************************************************)
(* Properties of a parsed Prediction's life (SpecLifecycle).               *)
(***************************************************************************)
\* C30: a Prediction returned by parse_content is PENDING with no
\* matched_event_id; whatever lifecycle, hashing, structural validation and
\* matching calls follow, its status is PENDING, VALIDATED or INVALIDATED,
\* never EXPIRED, and once it is not PENDING it is never PENDING again.
C30_ExpiredIsUnreachable ==
    [][/\ lastOp' = "parse_content" /\ pred' # None
          => The(pred').status = "PENDING" /\ The(pred').matched_event_id = None
       /\ pred' # None
          => The(pred').status \in {"PENDING", "VALIDATED", "INVALIDATED"}
       /\ pred # None /\ The(pred).status # "PENDING"
          => The(pred').status # "PENDING"]_vars

\* A parsed Prediction that was hashed, marked invalidated and then matched
\* against an event.
C30_Witness ==
    /\ Live /\ status = "INVALIDATED"
    /\ digest # None
    /\ lastOp = "validate_against_event"
    /\ The(pred).wave_parameters # None /\ The(pred).sky_location # None

====
